---- MODULE Spec2Model ----
(***************************************************************************)
(* The type checker core of erg: the subtyping engine (context/compare.rs), *)
(* the unification engine (context/unify.rs) and the instantiation engine  *)
(* (context/instantiate.rs), over a heap of free-variable cells and the     *)
(* global subtype cache.                                                    *)
(*                                                                          *)
(* The engines are recursive procedures that mutate shared cells.  Each is  *)
(* written here as a RECURSIVE operator in store-passing style: it takes    *)
(* the store s = [h, cache, trials] and returns a result record that holds  *)
(* the store it leaves behind.  x is "" for a normal return, "panic" for a  *)
(* panic!/todo!/unreachable!/unwrap on None, "fuel" when the recursion      *)
(* bound MaxDepth is used up.                                               *)
(***************************************************************************)
EXTENDS Integers, Sequences, FiniteSets, TLC

VARIABLES
    cells,   \* the heap of free-variable cells, a cell is named by its index
    cache,   \* GLOBAL_TYPE_CACHE: <<sub, sup>> -> bool
    ctx_tv,  \* the tv_cache of the Context: name -> type variable
    args,    \* the inputs a run was started with
    last,    \* the last engine call: its arguments, its result, the state before
    nops     \* engine calls made so far
vars == <<cells, cache, ctx_tv, args, last, nops>>

\* ---------------------------------------------------------------- bounds
\* cells the driver allocates with free_var before it starts unifying
MaxVars == 2
\* engine calls issued in one run
MaxOps == 2
\* recursion depth given to one engine call
MaxDepth == 14
\* free::GENERIC_LEVEL, the level of a generalized variable
GenericLevel == 99

\* ------------------------------------------------------------- Type (§3.1)
Prim(n) == [k |-> "Prim", n |-> n]
Obj == Prim("Obj")
Never == Prim("Never")
Failure == Prim("Failure")
TypeT == Prim("Type")
ClassType == Prim("ClassType")
TraitType == Prim("TraitType")
Bool == Prim("Bool")
NatT == Prim("Nat")
IntT == Prim("Int")
Ratio == Prim("Ratio")
Float == Prim("Float")
Str == Prim("Str")
NoneType == Prim("NoneType")
UninitedT == Prim("Uninited")
Mono(n) == [k |-> "Mono", n |-> n]
Poly(n, ps) == [k |-> "Poly", n |-> n, ps |-> ps]
TpT(t) == [k |-> "TpT", t |-> t]
Or(l, r) == [k |-> "Or", l |-> l, r |-> r]
And(l, r) == [k |-> "And", l |-> l, r |-> r]
Not(l, r) == [k |-> "Not", l |-> l, r |-> r]
Ref(t) == [k |-> "Ref", t |-> t]
RefMut(t) == [k |-> "RefMut", t |-> t]
Record(fs) == [k |-> "Record", fs |-> fs]
ParamTy(n, t) == [n |-> n, t |-> t]
Subr(kind, nd, vp, dp, ret) ==
    [k |-> "Subr", kind |-> kind, nd |-> nd, vp |-> vp, dp |-> dp, ret |-> ret]
Func1(p, r) == Subr("Func", <<ParamTy("", p)>>, <<>>, <<>>, r)
Func2(p, q, r) == Subr("Func", <<ParamTy("", p), ParamTy("", q)>>, <<>>, <<>>, r)
Quantified(t) == [k |-> "Quantified", t |-> t]
FreeVar(id) == [k |-> "FreeVar", id |-> id]
\* { var: t | preds }: a base type, the binder and a set of predicates
Refinement(var, t, preds) == [k |-> "Refinement", var |-> var, t |-> t, preds |-> preds]

\* TyParam::value of a number (true is 1, false is 0); inf is -1 for -inf,
\* 1 for inf and 0 for a finite value
TpValue(v) == [k |-> "Value", v |-> v, inf |-> 0]
TpInf == [k |-> "Value", v |-> 0, inf |-> 1]
TpNegInf == [k |-> "Value", v |-> 0, inf |-> -1]
\* array_t, set_t (constructors.rs 30-32, 45-47)
ArrayT(elem_t, len) == Poly("Array", <<TpT(elem_t), len>>)
SetT(elem_t, len) == Poly("Set", <<TpT(elem_t), len>>)
\* Predicate::eq, ne, ge, le: the binder lhs against the type parameter rhs
PredEq(lhs, rhs) == [k |-> "Equal", lhs |-> lhs, rhs |-> rhs]
PredNe(lhs, rhs) == [k |-> "NotEqual", lhs |-> lhs, rhs |-> rhs]
PredGe(lhs, rhs) == [k |-> "GreaterEqual", lhs |-> lhs, rhs |-> rhs]
PredLe(lhs, rhs) == [k |-> "LessEqual", lhs |-> lhs, rhs |-> rhs]
\* Predicate::subject, Predicate::mentions, Predicate::can_be_false
Subject(p) == p.lhs
Mentions(p, name) == p.lhs = name
CanBeFalse(p) == TRUE

\* ------------------------------------------------- Constraint, cell (§3.2)
Sandwiched(sub, sup) == [k |-> "Sandwiched", sub |-> sub, sup |-> sup]
TypeOf(t) == [k |-> "TypeOf", t |-> t]
UninitedC == [k |-> "Uninited"]
NoC == [k |-> "None"]

Unbound(name, lev, c) ==
    [st |-> "Unbound", name |-> name, lev |-> lev, c |-> c, t |-> Never, prev |-> <<>>]
Linked(name, lev, t) ==
    [st |-> "Linked", name |-> name, lev |-> lev, c |-> NoC, t |-> t, prev |-> <<>>]
UndoableLinked(old, t) ==
    [st |-> "UndoableLinked", name |-> old.name, lev |-> old.lev, c |-> NoC, t |-> t,
     prev |-> <<old>>]

Store(h, ca, tr) == [h |-> h, cache |-> ca, trials |-> tr]
SetH(s, h) == [s EXCEPT !.h = h]

\* Free::new_unbound / new_named_unbound: a fresh cell at the end of the heap
NewCell(s, name, lev, c) == SetH(s, Append(s.h, Unbound(name, lev, c)))
LastId(s) == Len(s.h)

IsFreeVar(t) == t.k = "FreeVar"
IsLinked(s, id) == s.h[id].st \in {"Linked", "UndoableLinked"}
IsUnbound(s, id) == s.h[id].st = "Unbound"
Crack(s, id) == s.h[id].t
HasSubSup(s, id) == IsUnbound(s, id) /\ s.h[id].c.k = "Sandwiched"
GetSub(s, id) == s.h[id].c.sub
GetSup(s, id) == s.h[id].c.sup
ConstraintIsUninited(s, id) == IsUnbound(s, id) /\ s.h[id].c.k = "Uninited"
LevelOf(s, id) == s.h[id].lev
\* Free::is_generalized
IsGeneralized(s, id) == IsUnbound(s, id) /\ s.h[id].lev = GenericLevel

\* Free::link: the cell forwards to t from now on
Link(s, id, t) ==
    SetH(s, [s.h EXCEPT ![id] = Linked(s.h[id].name, s.h[id].lev, t)])
\* Free::forced_undoable_link: a trial link that remembers the state it replaces
ForcedUndoableLink(s, id, t) ==
    [s EXCEPT !.h = [s.h EXCEPT ![id] = UndoableLinked(s.h[id], t)],
              !.trials = IF s.trials < 2 THEN s.trials + 1 ELSE s.trials]
\* Free::undo: back to the state the trial link replaced (panics on other cells)
CanUndo(s, id) == s.h[id].st = "UndoableLinked"
Undo(s, id) == SetH(s, [s.h EXCEPT ![id] = s.h[id].prev[1]])
RECURSIVE UpdateConstraintIn(_, _, _, _, _)
\* Free::update_constraint(new_constraint, in_inst_or_gen): on an unbound cell
\* replace the constraint (a generalized cell only during instantiation or
\* generalization); a linked cell passes the update on to its target
UpdateConstraintIn(s, id, c, in_inst_or_gen, f) ==
    IF IsUnbound(s, id)
    THEN IF ~in_inst_or_gen /\ s.h[id].lev = GenericLevel THEN s
         ELSE SetH(s, [s.h EXCEPT ![id] = Unbound(s.h[id].name, s.h[id].lev, c)])
    ELSE IF s.h[id].t.k = "FreeVar" /\ f > 0
    THEN UpdateConstraintIn(s, s.h[id].t.id, c, in_inst_or_gen, f - 1)
    ELSE s
UpdateConstraint(s, id, c) == UpdateConstraintIn(s, id, c, FALSE, MaxDepth)

\* ------------------------------------------------ Type: equality, queries
RECURSIVE Deref(_, _, _)
\* the type a chain of links leads to (Linked forwards to its target, §3.2)
Deref(s, t, f) ==
    IF t.k = "FreeVar" /\ IsLinked(s, t.id) /\ f > 0 THEN Deref(s, Crack(s, t.id), f - 1)
    ELSE t

RECURSIVE TypeEqIn(_, _, _, _)
\* PartialEq for Type: structural, links followed, a cell equal to itself only
TypeEqIn(s, a, b, f) ==
    IF a = b THEN TRUE
    ELSE IF a.k = "FreeVar" /\ IsLinked(s, a.id)
    THEN f > 0 /\ TypeEqIn(s, Crack(s, a.id), b, f - 1)
    ELSE IF b.k = "FreeVar" /\ IsLinked(s, b.id)
    THEN f > 0 /\ TypeEqIn(s, a, Crack(s, b.id), f - 1)
    ELSE IF a.k # b.k THEN FALSE
    ELSE CASE a.k \in {"Or", "And", "Not"} ->
                TypeEqIn(s, a.l, b.l, f) /\ TypeEqIn(s, a.r, b.r, f)
           [] a.k \in {"Ref", "RefMut", "Quantified", "TpT"} -> TypeEqIn(s, a.t, b.t, f)
           [] a.k = "Subr" ->
                /\ a.kind = b.kind
                /\ Len(a.nd) = Len(b.nd) /\ Len(a.vp) = Len(b.vp) /\ Len(a.dp) = Len(b.dp)
                /\ \A i \in DOMAIN a.nd :
                      a.nd[i].n = b.nd[i].n /\ TypeEqIn(s, a.nd[i].t, b.nd[i].t, f)
                /\ \A i \in DOMAIN a.vp :
                      a.vp[i].n = b.vp[i].n /\ TypeEqIn(s, a.vp[i].t, b.vp[i].t, f)
                /\ \A i \in DOMAIN a.dp :
                      a.dp[i].n = b.dp[i].n /\ TypeEqIn(s, a.dp[i].t, b.dp[i].t, f)
                /\ TypeEqIn(s, a.ret, b.ret, f)
           [] a.k = "Record" ->
                /\ DOMAIN a.fs = DOMAIN b.fs
                /\ \A n \in DOMAIN a.fs : TypeEqIn(s, a.fs[n], b.fs[n], f)
           [] a.k = "Poly" ->
                /\ a.n = b.n /\ Len(a.ps) = Len(b.ps)
                /\ \A i \in DOMAIN a.ps : TypeEqIn(s, a.ps[i], b.ps[i], f)
           [] a.k = "Refinement" ->
                a.var = b.var /\ a.preds = b.preds /\ TypeEqIn(s, a.t, b.t, f)
           [] OTHER -> FALSE
TypeEq(s, a, b) == TypeEqIn(s, a, b, MaxDepth)

RECURSIVE FreeVarsOf(_)
\* the cells a type mentions (not through links or constraints)
FreeVarsOf(t) ==
    CASE t.k = "FreeVar" -> {t.id}
      [] t.k \in {"Or", "And", "Not"} -> FreeVarsOf(t.l) \cup FreeVarsOf(t.r)
      [] t.k \in {"Ref", "RefMut", "Quantified", "TpT", "Refinement"} -> FreeVarsOf(t.t)
      [] t.k = "Subr" ->
           UNION {FreeVarsOf(t.nd[i].t) : i \in DOMAIN t.nd}
           \cup UNION {FreeVarsOf(t.vp[i].t) : i \in DOMAIN t.vp}
           \cup UNION {FreeVarsOf(t.dp[i].t) : i \in DOMAIN t.dp}
           \cup FreeVarsOf(t.ret)
      [] t.k = "Record" -> UNION {FreeVarsOf(t.fs[n]) : n \in DOMAIN t.fs}
      [] t.k = "Poly" -> UNION {FreeVarsOf(t.ps[i]) : i \in DOMAIN t.ps}
      [] OTHER -> {}

RECURSIVE UnboundVarsIn(_, _, _)
\* the unbound cells of the cells ids, links followed
UnboundVarsIn(s, ids, f) ==
    UNION {IF IsLinked(s, id)
           THEN IF f = 0 THEN {} ELSE UnboundVarsIn(s, FreeVarsOf(Crack(s, id)), f - 1)
           ELSE {id} : id \in ids}
\* the unbound cells a type mentions, links followed
UnboundVarsOf(s, t) == UnboundVarsIn(s, FreeVarsOf(t), MaxDepth)

\* Type::is_cachable: a type with no free variable in it
IsCachable(t) == FreeVarsOf(t) = {}
\* Type::has_unbound_var, through links
HasNoUnboundVar(s, t) == UnboundVarsOf(s, t) = {}
\* Type::is_unbound_var
IsUnboundVar(s, t) == Deref(s, t, MaxDepth).k = "FreeVar"
\* Type::is_simple_class: the built-in monomorphic classes
IsSimpleClass(s, t) ==
    LET u == Deref(s, t, MaxDepth) IN u.k = "Prim" /\ u.n \notin {"Failure", "Uninited"}

\* Type::has_qvar: a generalized variable occurs in the type
HasQVar(s, t) == \E id \in UnboundVarsOf(s, t) : IsGeneralized(s, id)

RECURSIVE ContainsUnion(_, _, _)
\* Type::contains_union: typ is one of the arms of the union self
ContainsUnion(s, self, typ) ==
    IF self.k = "Or"
    THEN ContainsUnion(s, self.l, typ) \/ ContainsUnion(s, self.r, typ)
    ELSE TypeEq(s, self, typ)

\* ------------------------------------------------------- Context (§3.5)
\* The nominal type contexts the checker has registered: per name its kind,
\* super classes, super traits and the declared variance of its parameters.
Num == Mono("Num")
Eq == Mono("Eq")
Show == Mono("Show")
Add(t) == Poly("Add", <<TpT(t)>>)
Pair(t, u) == Poly("Pair", <<TpT(t), TpT(u)>>)
ClassCtx(sc, st) == [kind |-> "Class", super_classes |-> sc, super_traits |-> st, variance |-> <<>>]
TraitCtx(st, va) == [kind |-> "Trait", super_classes |-> <<>>, super_traits |-> st, variance |-> va]
NominalNames ==
    {"Obj", "Never", "Float", "Ratio", "Int", "Nat", "Bool", "Str", "NoneType", "Type",
     "ClassType", "TraitType", "Num", "Eq", "Show", "Add", "Pair", "Or", "Func", "Proc",
     "Record", "Array", "Set", "Range", "Iterable"}
NominalCtx(n) ==
    CASE n = "Float" -> ClassCtx(<<Obj>>, <<Num, Eq>>)
      [] n = "Ratio" -> ClassCtx(<<Obj>>, <<Num, Eq>>)
      [] n = "Int" -> ClassCtx(<<Obj>>, <<Num, Eq, Add(IntT)>>)
      [] n = "Nat" -> ClassCtx(<<IntT, Obj>>, <<Num, Eq, Add(NatT)>>)
      [] n = "Bool" -> ClassCtx(<<NatT, IntT, Obj>>, <<Eq>>)
      [] n = "Str" -> ClassCtx(<<Obj>>, <<Eq, Show, Add(Str)>>)
      [] n = "NoneType" -> ClassCtx(<<Obj>>, <<Eq>>)
      [] n = "ClassType" -> ClassCtx(<<TypeT, Obj>>, <<Eq>>)
      [] n = "TraitType" -> ClassCtx(<<TypeT, Obj>>, <<Eq>>)
      [] n = "Num" -> TraitCtx(<<>>, <<>>)
      [] n = "Eq" -> TraitCtx(<<>>, <<>>)
      [] n = "Show" -> TraitCtx(<<>>, <<>>)
      [] n = "Add" -> TraitCtx(<<>>, <<"Covariant">>)
      [] n = "Pair" ->
           [kind |-> "Class", super_classes |-> <<Obj>>, super_traits |-> <<Eq>>,
            variance |-> <<"Covariant", "Covariant">>]
      [] n \in {"Array", "Set"} ->
           [kind |-> "Class", super_classes |-> <<Obj>>, super_traits |-> <<Eq, Show>>,
            variance |-> <<"Covariant", "Invariant">>]
      [] n = "Iterable" -> TraitCtx(<<>>, <<"Covariant">>)
      [] n = "Range" ->
           [kind |-> "Class", super_classes |-> <<Obj>>,
            super_traits |-> <<Eq, Poly("Iterable", <<TpT(FreeVar(1))>>)>>,
            variance |-> <<"Covariant">>]
      [] OTHER -> ClassCtx(<<Obj>>, <<>>)
\* the type of the definition that get_nominal_type_ctx returns with the
\* context: Range('T), whose parameter 'T is cell 1 of the heap in the states
\* that hold the definition; the other definitions carry no parameter cell
SubDefT(n) == IF n = "Range" THEN Poly("Range", <<TpT(FreeVar(1))>>) ELSE Mono(n)

RECURSIVE CtxNameOf(_, _, _)
\* Context::get_nominal_type_ctx: the name whose context describes the type,
\* "" when the type has no nominal definition
CtxNameOf(s, t, f) ==
    LET n == CASE t.k \in {"Prim", "Mono", "Poly"} -> t.n
               [] t.k = "FreeVar" ->
                    IF f = 0 THEN ""
                    ELSE IF IsLinked(s, t.id) THEN CtxNameOf(s, Crack(s, t.id), f - 1)
                    ELSE IF HasSubSup(s, t.id) THEN CtxNameOf(s, GetSup(s, t.id), f - 1)
                    ELSE ""
               [] t.k \in {"Ref", "RefMut", "Refinement"} -> CtxNameOf(s, t.t, f)
               [] t.k = "Subr" -> IF t.kind = "Func" THEN "Func" ELSE "Proc"
               [] t.k = "Record" -> "Record"
               [] t.k = "Or" -> "Or"
               [] OTHER -> ""
    IN IF n \in NominalNames THEN n ELSE ""

RECURSIVE IsClass(_, _, _)
\* Context::is_class
IsClass(s, t, f) ==
    CASE t.k = "And" -> FALSE
      [] t.k = "FreeVar" -> f > 0 /\ IsLinked(s, t.id) /\ IsClass(s, Crack(s, t.id), f - 1)
      [] t.k = "Or" -> IsClass(s, t.l, f) /\ IsClass(s, t.r, f)
      [] t.k \in {"Ref", "RefMut", "Refinement"} -> IsClass(s, t.t, f)
      [] OTHER -> CtxNameOf(s, t, f) # "" /\ NominalCtx(CtxNameOf(s, t, f)).kind = "Class"

RECURSIVE IsTrait(_, _, _)
\* Context::is_trait
IsTrait(s, t, f) ==
    CASE t = Never -> FALSE
      [] t.k = "FreeVar" -> f > 0 /\ IsLinked(s, t.id) /\ IsTrait(s, Crack(s, t.id), f - 1)
      [] t.k \in {"Or", "And"} -> IsTrait(s, t.l, f) /\ IsTrait(s, t.r, f)
      [] t.k \in {"Ref", "RefMut", "Refinement"} -> IsTrait(s, t.t, f)
      [] OTHER -> CtxNameOf(s, t, f) # "" /\ NominalCtx(CtxNameOf(s, t, f)).kind = "Trait"

\* ------------------------------------------------- subtype cache (§2, E)
CacheKey(sub, sup) == <<sub, sup>>
\* register_cache storing the result under the key of the converse query
RegisterCacheSwapped(s, sup, sub, result) ==
    IF IsCachable(sub) /\ IsCachable(sup)
    THEN [s EXCEPT !.cache =
            [p \in DOMAIN s.cache \cup {CacheKey(sup, sub)} |->
                IF p = CacheKey(sup, sub) THEN result ELSE s.cache[p]]]
    ELSE s
\* Context::register_cache (compare.rs 35-39)
RegisterCache(s, sup, sub, result) ==
    IF IsCachable(sub) /\ IsCachable(sup)
    THEN [s EXCEPT !.cache =
            [p \in DOMAIN s.cache \cup {CacheKey(sub, sup)} |->
                IF p = CacheKey(sub, sup) THEN result ELSE s.cache[p]]]
    ELSE s
\* Context::inquire_cache (compare.rs 42-52): <<>> for None, <<b>> for Some(b)
InquireCache(s, sup, sub) ==
    IF IsCachable(sub) /\ IsCachable(sup) /\ CacheKey(sub, sup) \in DOMAIN s.cache
    THEN <<s.cache[CacheKey(sub, sup)]>>
    ELSE <<>>

\* ------------------------------------------------ calls between the engines
\* The functions of the three engines call each other recursively. A call is
\* written F(args) and handed to Run, which runs the body of the function named.
RECURSIVE Run(_)
\* a call of supertype_of: Context::supertype_of
SupertypeOf(s, lhs, rhs, f) == Run(<<"supertype_of", s, lhs, rhs, f>>)
\* a call of same_type_of: Context::same_type_of
SameTypeOf(s, lhs, rhs, f) == Run(<<"same_type_of", s, lhs, rhs, f>>)
\* a call of structural_supertype_of: Context::structural_supertype_of
StructuralSupertypeOf(s, lhs, rhs, f) == Run(<<"structural_supertype_of", s, lhs, rhs, f>>)
\* a call of nominal_supertype_of: Context::nominal_supertype_of
NominalSupertypeOf(s, lhs, rhs, f) == Run(<<"nominal_supertype_of", s, lhs, rhs, f>>)
\* a call of all_supertype_of: a chain of supertype_of calls joined by &&
AllSupertypeOf(s, cs, f) == Run(<<"all_supertype_of", s, cs, f>>)
\* a call of any_super_of: the loop over the super types of rhs
AnySuperOf(s, lhs, sups, f) == Run(<<"any_super_of", s, lhs, sups, f>>)
\* a call of supertype_of_tp: Context::supertype_of_tp
SupertypeOfTp(s, lp, rp, variance, f) == Run(<<"supertype_of_tp", s, lp, rp, variance, f>>)
\* a call of poly_supertype_of: Context::poly_supertype_of
PolySupertypeOf(s, typ, lparams, rparams, f) == Run(<<"poly_supertype_of", s, typ, lparams, rparams, f>>)
\* a call of union: Context::union
Union(s, lhs, rhs, f) == Run(<<"union", s, lhs, rhs, f>>)
\* a call of intersection: Context::intersection
Intersection(s, lhs, rhs, f) == Run(<<"intersection", s, lhs, rhs, f>>)
\* a call of sub_unify: Context::sub_unify
SubUnify(s, maybe_sub, maybe_sup, f) == Run(<<"sub_unify", s, maybe_sub, maybe_sup, f>>)
\* a call of sub_unify_tp: Context::sub_unify_tp
SubUnifyTp(s, maybe_sub, maybe_sup, f) == Run(<<"sub_unify_tp", s, maybe_sub, maybe_sup, f>>)
\* a call of sub_unify_all: a sequence of sub_unify calls chained with ?
SubUnifyAll(s, ps, f) == Run(<<"sub_unify_all", s, ps, f>>)
\* a call of sub_unify_tp_all: a sequence of sub_unify_tp calls chained with ?
SubUnifyTpAll(s, ps, f) == Run(<<"sub_unify_tp_all", s, ps, f>>)
\* a call of nominal_sub_unify: Context::nominal_sub_unify
NominalSubUnify(s, maybe_sub, maybe_sup, sup_params, f) == Run(<<"nominal_sub_unify", s, maybe_sub, maybe_sup, sup_params, f>>)
\* a call of nominal_sub_unify_loop: the loop of nominal_sub_unify
\* a call of instantiate_t_inner on a definition or one of its super traits
InstantiateDefT(s, tv, t) == Run(<<"instantiate_def_t", s, tv, t>>)
NominalSubUnifyLoop(s, tv, maybe_sup, traits, sub_def_t, sup_params, f) == Run(<<"nominal_sub_unify_loop", s, tv, maybe_sup, traits, sub_def_t, sup_params, f>>)
\* a call of instantiate_t_inner: Context::instantiate_t_inner
InstantiateTInner(cx, e, unbound, f) == Run(<<"instantiate_t_inner", cx, e, unbound, f>>)
\* a call of instantiate_constraint: TyVarCache::instantiate_constraint
InstantiateConstraint(cx, e, constr, f) == Run(<<"instantiate_constraint", cx, e, constr, f>>)
\* a call of instantiate_seq: a run of instantiate_t_inner calls chained with ?
InstantiateSeq(cx, e, ts, f) == Run(<<"instantiate_seq", cx, e, ts, f>>)
\* a call of instantiate: Context::instantiate
Instantiate(cx, s, quantified, f) == Run(<<"instantiate", cx, s, quantified, f>>)

\* ------------------------------------------- subtyping engine (compare.rs)
\* the error a Result carries: its constructor in error/tycheck.rs and the two
\* types it reports
TyCheckError(kind, expect, found) == [kind |-> kind, expect |-> expect, found |-> found]
NoError == TyCheckError("", Never, Never)
\* TyCheckError::type_mismatch_error (tycheck.rs 109-168)
TypeMismatchError(expect, found) == TyCheckError("TypeMismatch", expect, found)
\* TyCheckError::subtyping_error (tycheck.rs 656-708): the supertype is the
\* type expected of the subtype
SubtypingError(sub_t, sup_t) == TyCheckError("SubtypingError", sup_t, sub_t)
\* TyCheckError::unification_error of lhs_t and rhs_t
UnificationError(lhs_t, rhs_t) == TyCheckError("UnificationError", rhs_t, lhs_t)
\* type_feature_error!: the construct is not supported
FeatureError == TyCheckError("FeatureError", Never, Never)
Res(b, s) == [b |-> b, s |-> s, x |-> "", err |-> NoError]
Exc(s, x) == [b |-> FALSE, s |-> s, x |-> x, err |-> NoError]
\* Err(e) of a TyCheckResult
Err(s, e) == [b |-> FALSE, s |-> s, x |-> "", err |-> e]
Stop(r) == r.x # ""
Absolutely(b) == [c |-> "Absolutely", b |-> b, x |-> ""]
Maybe(b) == [c |-> "Maybe", b |-> b, x |-> ""]
\* one comparison lhs :> rhs of a list; ok = FALSE is an immediate false
Cmp(l, r) == [l |-> l, r |-> r, ok |-> TRUE]
NoCmp == [l |-> Never, r |-> Never, ok |-> FALSE]

\* the rows of the tower with Nat in the row of Int
NumericTowerNatOverInt ==
    {<<"Float", "Bool">>, <<"Ratio", "Bool">>, <<"Int", "Bool">>, <<"Nat", "Bool">>,
     <<"Bool", "Bool">>, <<"Float", "Nat">>, <<"Ratio", "Nat">>, <<"Int", "Nat">>,
     <<"Nat", "Nat">>, <<"Float", "Int">>, <<"Ratio", "Int">>, <<"Int", "Int">>,
     <<"Nat", "Int">>, <<"Float", "Ratio">>, <<"Ratio", "Ratio">>, <<"Float", "Float">>}
\* the numeric rows of cheap_supertype_of (compare.rs 172-176) as (lhs, rhs)
NumericTower ==
    {<<"Float", "Bool">>, <<"Ratio", "Bool">>, <<"Int", "Bool">>, <<"Nat", "Bool">>,
     <<"Bool", "Bool">>, <<"Float", "Nat">>, <<"Ratio", "Nat">>, <<"Int", "Nat">>,
     <<"Nat", "Nat">>, <<"Float", "Int">>, <<"Ratio", "Int">>, <<"Int", "Int">>,
     <<"Float", "Ratio">>, <<"Ratio", "Ratio">>, <<"Float", "Float">>}

\* the free-variable arm of cheap_supertype_of (compare.rs 212-215)
CheapFreeVar(s, id) ==
    IF HasSubSup(s, id) /\ GetSub(s, id) = Never /\ GetSup(s, id) = Obj
    THEN Absolutely(TRUE)
    ELSE Maybe(FALSE)

\* Context::cheap_supertype_of (compare.rs 164-220)
CheapSupertypeOf(s, lhs, rhs) ==
    IF TypeEq(s, lhs, rhs) THEN Absolutely(TRUE)
    ELSE IF lhs = Obj \/ rhs \in {Never, Failure} THEN Absolutely(TRUE)
    ELSE IF rhs = Obj /\ IsSimpleClass(s, lhs) THEN Absolutely(FALSE)
    ELSE IF lhs \in {Never, Failure} /\ IsSimpleClass(s, rhs) THEN Absolutely(FALSE)
    ELSE IF lhs.k = "Prim" /\ rhs.k = "Prim" /\ <<lhs.n, rhs.n>> \in NumericTower
         THEN Absolutely(TRUE)
    ELSE IF lhs = TypeT /\ rhs \in {ClassType, TraitType} THEN Absolutely(TRUE)
    ELSE IF lhs = UninitedT \/ rhs = UninitedT
         THEN [c |-> "Absolutely", b |-> FALSE, x |-> "panic"]
    ELSE IF lhs = Mono("GenericFunc") /\ rhs.k = "Subr" /\ rhs.kind = "Func"
         THEN Absolutely(TRUE)
    ELSE IF lhs = Mono("GenericProc") /\ rhs.k = "Subr" /\ rhs.kind = "Proc"
         THEN Absolutely(TRUE)
    ELSE IF lhs = Mono("GenericArray") /\ rhs.k = "Poly" /\ rhs.n = "Array"
         THEN Absolutely(TRUE)
    ELSE IF lhs = Mono("GenericDict") /\ rhs.k = "Poly" /\ rhs.n = "Dict"
         THEN Absolutely(TRUE)
    ELSE IF lhs = Mono("GenericCallable") /\ rhs.k = "Mono"
            /\ rhs.n \in {"GenericFunc", "GenericProc", "GenericFuncMethod",
                          "GenericProcMethod"}
         THEN Absolutely(TRUE)
    ELSE IF rhs.k = "FreeVar" THEN CheapFreeVar(s, rhs.id)
    ELSE IF lhs.k = "FreeVar" THEN CheapFreeVar(s, lhs.id)
    ELSE IF lhs = Mono("GenericCallable") /\ rhs.k = "Subr" THEN Absolutely(TRUE)
    ELSE IF IsSimpleClass(s, lhs) /\ IsSimpleClass(s, rhs) THEN Absolutely(FALSE)
    ELSE Maybe(FALSE)

\* the default parameter of rs named like lpt (compare.rs 349-352), <<>> if none
FindDefault(dp, n) ==
    IF \E i \in DOMAIN dp : dp[i].n = n
    THEN <<dp[CHOOSE i \in DOMAIN dp : dp[i].n = n /\ \A j \in 1..(i - 1) : dp[j].n # n]>>
    ELSE <<>>
\* kw_check (compare.rs 347-362): lpt <: rpt for every default parameter of ls
KwCheck(ls, rs) ==
    [i \in DOMAIN ls.dp |->
        IF FindDefault(rs.dp, ls.dp[i].n) = <<>> THEN NoCmp
        ELSE Cmp(FindDefault(rs.dp, ls.dp[i].n)[1].t, ls.dp[i].t)]
\* the non-default parameters compared covariantly, like the return type
SubrCmpsCovariant(ls, rs) ==
    <<Cmp(ls.ret, rs.ret)>>
    \o [i \in 1..Len(ls.nd) |-> Cmp(ls.nd[i].t, rs.nd[i].t)]
    \o (IF Len(ls.vp) > 0 /\ Len(rs.vp) > 0 THEN <<Cmp(rs.vp[1].t, ls.vp[1].t)>> ELSE <<>>)
    \o KwCheck(ls, rs)
\* the comparisons of the Subr arm in the order the && chain makes them
\* (compare.rs 365-375): return covariant, parameters contravariant
SubrCmps(ls, rs) ==
    <<Cmp(ls.ret, rs.ret)>>
    \o [i \in 1..Len(ls.nd) |-> Cmp(rs.nd[i].t, ls.nd[i].t)]
    \o (IF Len(ls.vp) > 0 /\ Len(rs.vp) > 0 THEN <<Cmp(rs.vp[1].t, ls.vp[1].t)>> ELSE <<>>)
    \o KwCheck(ls, rs)

\* lfv.undo() / rfv.undo() closing a trial comparison (compare.rs 406, 430)
EndTrialNoUndo(r, id) == r
EndTrial(r, id) ==
    IF Stop(r) THEN r
    ELSE IF CanUndo(r.s, id) THEN Res(r.b, Undo(r.s, id))
    ELSE Exc(r.s, "panic")


\* Context::subtype_of (compare.rs 151-158): lhs <: rhs
SubtypeOf(s, lhs, rhs, f) == SupertypeOf(s, rhs, lhs, f)
\* Context::same_type_of (compare.rs 160-162)
same_type_of(s, lhs, rhs, f) ==
    LET r1 == SupertypeOf(s, lhs, rhs, f)
    IN IF Stop(r1) \/ ~r1.b THEN r1 ELSE SubtypeOf(r1.s, lhs, rhs, f)

\* Context::supertype_of (compare.rs 133-144): lhs :> rhs
supertype_of(s, lhs, rhs, f) ==
    IF f = 0 THEN Exc(s, "fuel")
    ELSE LET c == CheapSupertypeOf(s, lhs, rhs)
         IN IF c.x # "" THEN Exc(s, c.x)
            ELSE IF c.c = "Absolutely" \/ c.b THEN Res(c.b, s)
            ELSE LET r1 == StructuralSupertypeOf(s, lhs, rhs, f - 1)
                 IN IF Stop(r1) \/ r1.b THEN r1
                    ELSE NominalSupertypeOf(r1.s, lhs, rhs, f - 1)

\* a chain c1 && c2 && ... of comparisons, left to right, stopping at a false
all_supertype_of(s, cs, f) ==
    IF cs = <<>> THEN Res(TRUE, s)
    ELSE IF ~cs[1].ok THEN Res(FALSE, s)
    ELSE LET r1 == SupertypeOf(s, cs[1].l, cs[1].r, f)
         IN IF Stop(r1) \/ ~r1.b THEN r1 ELSE AllSupertypeOf(r1.s, Tail(cs), f)

\* the Or and And arms (compare.rs 563-583): two alternatives of two
\* comparisons each for Or/Or and And/And
EitherPairing(s, l1, l2, r1, r2, f) ==
    LET a == AllSupertypeOf(s, <<Cmp(l1, r1), Cmp(l2, r2)>>, f)
    IN IF Stop(a) \/ a.b THEN a
       ELSE AllSupertypeOf(a.s, <<Cmp(l1, r2), Cmp(l2, r1)>>, f)
AnyOf(s, c1, c2, f) ==
    LET a == SupertypeOf(s, c1.l, c1.r, f)
    IN IF Stop(a) \/ a.b THEN a ELSE SupertypeOf(a.s, c2.l, c2.r, f)

\* the fields of a record type in the order the comparison visits them
FieldOrder == <<"a", "b", "c">>
FieldsOf(rec) == SelectSeq(FieldOrder, LAMBDA n : n \in DOMAIN rec.fs)
\* Record arm (compare.rs 437-448): every field of lhs is in rhs, covariantly
RecordCmps(lhs, rhs) ==
    [i \in DOMAIN FieldsOf(lhs) |->
        IF FieldsOf(lhs)[i] \in DOMAIN rhs.fs
        THEN Cmp(lhs.fs[FieldsOf(lhs)[i]], rhs.fs[FieldsOf(lhs)[i]])
        ELSE NoCmp]
\* Context::meta_type of a type that is not polymorphic
MetaType(t) == TypeT
\* Free::get_type: the type of a TypeOf constraint
HasTypeOf(s, id) == IsUnbound(s, id) /\ s.h[id].c.k = "TypeOf"

\* the two literal values compared the other way round
TryCmpSwapped(l, r) ==
    IF l.inf # r.inf THEN (IF r.inf < l.inf THEN "Less" ELSE "Greater")
    ELSE IF l.inf # 0 \/ l.v = r.v THEN "Equal"
    ELSE IF r.v < l.v THEN "Less" ELSE "Greater"
\* ValueObj::try_cmp through Context::try_cmp (compare.rs 719-722): the order
\* of two literal values
TryCmp(l, r) ==
    IF l.inf # r.inf THEN (IF l.inf < r.inf THEN "Less" ELSE "Greater")
    ELSE IF l.inf # 0 \/ l.v = r.v THEN "Equal"
    ELSE IF l.v < r.v THEN "Less" ELSE "Greater"
\* TyParamOrdering::canbe_eq, canbe_le, canbe_ge of the order of two values
CanbeEq(ord) == ord = "Equal"
CanbeLe(ord) == ord \in {"Less", "Equal"}
CanbeGe(ord) == ord \in {"Greater", "Equal"}
\* TyParam::has_upper_bound, has_lower_bound of a value
HasUpperBound(tp) == tp.inf # 1
HasLowerBound(tp) == tp.inf # -1

\* Context::is_super_pred_of (compare.rs 946-990) on the four comparison
\* predicates: "true", "false", or "todo" where the match ends in todo!()
IsSuperPredOf(lhs, rhs) ==
    IF lhs.k = "LessEqual" /\ ~HasUpperBound(lhs.rhs) THEN "true"
    ELSE IF lhs.k = "GreaterEqual" /\ ~HasLowerBound(lhs.rhs) THEN "true"
    ELSE IF \/ lhs.k = "Equal" /\ rhs.k \in {"GreaterEqual", "LessEqual", "NotEqual"}
            \/ lhs.k = "LessEqual" /\ rhs.k = "GreaterEqual"
            \/ lhs.k = "GreaterEqual" /\ rhs.k = "LessEqual"
            \/ lhs.k = "NotEqual" /\ rhs.k = "Equal"
         THEN "false"
    ELSE IF lhs.k = rhs.k /\ lhs.k \in {"Equal", "NotEqual"}
         THEN (IF CanbeEq(TryCmp(lhs.rhs, rhs.rhs)) THEN "true" ELSE "false")
    ELSE IF lhs.k = "GreaterEqual" /\ rhs.k \in {"GreaterEqual", "Equal"}
         THEN (IF CanbeLe(TryCmp(lhs.rhs, rhs.rhs)) THEN "true" ELSE "false")
    ELSE IF lhs.k = "LessEqual" /\ rhs.k \in {"LessEqual", "Equal"}
         THEN (IF CanbeGe(TryCmp(lhs.rhs, rhs.rhs)) THEN "true" ELSE "false")
    ELSE "todo"

\* the name fresh_varname gives the binder of a refinement made on the way
FreshVarname == "%v"
\* Context::into_refinement (compare.rs 814-838)
IntoRefinement(t) ==
    IF t = NatT THEN Refinement(FreshVarname, IntT, {PredGe(FreshVarname, TpValue(0))})
    ELSE IF t = Bool
    THEN Refinement(FreshVarname, IntT,
                    {PredGe(FreshVarname, TpValue(1)), PredLe(FreshVarname, TpValue(0))})
    ELSE IF t.k = "Refinement" THEN t
    ELSE Refinement(FreshVarname, t, {})
RECURSIVE Derefine(_)
\* Type::derefine: the base type of a refinement
Derefine(t) == IF t.k = "Refinement" THEN Derefine(t.t) ELSE t

\* the pairs the loops of the (Refinement, Refinement) arm hand to
\* is_super_pred_of (compare.rs 510-519): both subjects are the binders
PredPairs(l, r) ==
    {<<lp, rp>> \in l.preds \X r.preds : Subject(lp) = l.var /\ Subject(rp) = r.var}
\* r_preds_clone after the loops: the predicates of r no predicate of l removed
RemainingPreds(l, r) ==
    {rp \in r.preds : \A lp \in l.preds :
        <<lp, rp>> \notin PredPairs(l, r) \/ IsSuperPredOf(lp, rp) # "true"}
\* (Refinement(l), Refinement(r)) (compare.rs 505-521), the base types
\* compared by r1 and, where that failed, by r2
RefinementPreds(l, r, r2) ==
    IF Stop(r2) \/ ~r2.b THEN r2
    ELSE IF \E pr \in PredPairs(l, r) : IsSuperPredOf(pr[1], pr[2]) = "todo"
    THEN Exc(r2.s, "panic")
    ELSE Res(RemainingPreds(l, r) = {}, r2.s)
StructuralRefinements(s, l, r, r1, f) ==
    IF Stop(r1) THEN r1
    ELSE IF r1.b THEN RefinementPreds(l, r, r1)
    ELSE RefinementPreds(l, r, SupertypeOf(r1.s, r.t, l.t, f))
\* (l, Refinement(r)) (compare.rs 535-545)
StructuralRightRefinement(s, lhs, rhs, r1, f) ==
    IF Stop(r1) \/ r1.b THEN r1
    ELSE LET r2 == SupertypeOf(r1.s, Derefine(lhs), rhs.t, f)
         IN IF Stop(r2) \/ r2.b THEN r2
            ELSE StructuralSupertypeOf(r2.s, IntoRefinement(Derefine(lhs)), rhs, f)
\* (Refinement(l), r) (compare.rs 548-559)
StructuralLeftRefinement(s, lhs, rhs, f) ==
    IF lhs.preds = {} THEN Exc(s, "panic")
    ELSE IF \E p \in lhs.preds : Mentions(p, lhs.var) /\ CanBeFalse(p) THEN Res(FALSE, s)
    ELSE SupertypeOf(s, lhs.t, rhs, f)

\* eval_bin_tp(OpKind::Le, llen, rlen) of two literal values is Bool(true)
EvalLe(llen, rlen) == TryCmp(llen, rlen) \in {"Less", "Equal"}
\* the lengths of the Array arm taken the other way round
ArrayLenSwapped(s, lparams, rparams, r1) ==
    IF Stop(r1) \/ ~r1.b THEN r1
    ELSE IF lparams[2].k # "Value" \/ rparams[2].k # "Value" THEN Exc(r1.s, "panic")
    ELSE Res(EvalLe(rparams[2], lparams[2]), r1.s)
\* the length check of the Array and Set arm (compare.rs 606-619) after the
\* element types were compared by r1; a length that does not evaluate is todo!()
ArrayLen(s, lparams, rparams, r1) ==
    IF Stop(r1) \/ ~r1.b THEN r1
    ELSE IF lparams[2].k # "Value" \/ rparams[2].k # "Value" THEN Exc(r1.s, "panic")
    ELSE Res(EvalLe(lparams[2], rparams[2]), r1.s)
\* (Poly, Poly) of Array or Set (compare.rs 606-619)
StructuralArray(s, lparams, rparams, f) ==
    IF lparams[1].k # "TpT" \/ rparams[1].k # "TpT" THEN Exc(s, "panic")
    ELSE ArrayLen(s, lparams, rparams, SupertypeOf(s, lparams[1].t, rparams[1].t, f))

\* the arm of the match in structural_supertype_of that (lhs, rhs) takes
\* (compare.rs 345-645), the patterns tried in the order of the source
StructuralArm(lhs, rhs) ==
    IF lhs.k = "Subr" /\ rhs.k = "Subr" /\ (lhs.kind = rhs.kind \/ lhs.kind = "Proc")
    THEN "Subr"
    ELSE IF lhs.k = "FreeVar" /\ rhs.k = "FreeVar" THEN "FreeVar/FreeVar"
    ELSE IF lhs.k = "FreeVar" THEN "FreeVar/rhs"
    ELSE IF rhs.k = "FreeVar" THEN "lhs/FreeVar"
    ELSE IF lhs.k = "Record" /\ rhs.k = "Record" THEN "Record"
    ELSE IF lhs = TypeT /\ rhs.k = "Record" THEN "Type/Record"
    ELSE IF lhs = TypeT /\ rhs.k = "Subr" THEN "Type/Subr"
    ELSE IF lhs.k = "Refinement" /\ rhs.k = "Refinement" THEN "Refinement/Refinement"
    ELSE IF lhs = NatT /\ rhs.k = "Refinement" THEN "Nat/Refinement"
    ELSE IF lhs.k = "Refinement" /\ rhs = NatT THEN "Refinement/Nat"
    ELSE IF rhs.k = "Refinement" THEN "l/Refinement"
    ELSE IF lhs.k = "Refinement" THEN "Refinement/r"
    ELSE IF lhs.k = "Quantified" THEN "Quantified/r"
    ELSE IF rhs.k = "Quantified" THEN "l/Quantified"
    ELSE IF lhs.k = "Or" /\ rhs.k = "Or" THEN "Or/Or"
    ELSE IF lhs.k = "Or" THEN "Or/rhs"
    ELSE IF rhs.k = "Or" THEN "lhs/Or"
    ELSE IF lhs.k = "And" /\ rhs.k = "And" THEN "And/And"
    ELSE IF lhs.k = "And" THEN "And/rhs"
    ELSE IF rhs.k = "And" THEN "lhs/And"
    ELSE IF rhs.k = "Not" \/ lhs.k = "Not" THEN "Not"
    ELSE IF lhs.k \in {"Ref", "RefMut"} THEN "Ref"
    ELSE IF lhs.k = "Poly" /\ rhs.k = "Poly" THEN "Poly"
    ELSE "_"

\* (FreeVar(lfv), FreeVar(rfv)) (compare.rs 379-390)
StructuralFreeVars(s, lhs, rhs, f) ==
    IF HasSubSup(s, lhs.id) /\ HasSubSup(s, rhs.id)
    THEN SupertypeOf(s, GetSup(s, lhs.id), GetSub(s, rhs.id), f)
    ELSE IF IsLinked(s, lhs.id) THEN SupertypeOf(s, Crack(s, lhs.id), rhs, f)
    ELSE IF IsLinked(s, rhs.id) THEN SupertypeOf(s, lhs, Crack(s, rhs.id), f)
    ELSE Res(FALSE, s)
\* (FreeVar(lfv), rhs) (compare.rs 396-420)
StructuralLeftVar(s, lhs, rhs, f) ==
    IF IsLinked(s, lhs.id) THEN SupertypeOf(s, Crack(s, lhs.id), rhs, f)
    ELSE IF HasSubSup(s, lhs.id)
    THEN EndTrial(SupertypeOf(ForcedUndoableLink(s, lhs.id, rhs), GetSup(s, lhs.id), rhs, f),
                  lhs.id)
    ELSE IF HasTypeOf(s, lhs.id) THEN SupertypeOf(s, s.h[lhs.id].c.t, MetaType(rhs), f)
    ELSE Exc(s, "panic")
\* (lhs, FreeVar(rfv)) (compare.rs 421-436)
StructuralRightVar(s, lhs, rhs, f) ==
    IF IsLinked(s, rhs.id) THEN SupertypeOf(s, lhs, Crack(s, rhs.id), f)
    ELSE IF HasSubSup(s, rhs.id)
    THEN EndTrial(SupertypeOf(ForcedUndoableLink(s, rhs.id, lhs), lhs, GetSub(s, rhs.id), f),
                  rhs.id)
    ELSE Exc(s, "panic")

\* Context::structural_supertype_of (compare.rs 343-646)
structural_supertype_of(s, lhs, rhs, f) ==
    IF f = 0 THEN Exc(s, "fuel")
    ELSE LET arm == StructuralArm(lhs, rhs)
         IN CASE arm = "Subr" ->
                   IF Len(lhs.nd) = Len(rhs.nd) /\ Len(lhs.dp) = Len(rhs.dp)
                   THEN AllSupertypeOf(s, SubrCmps(lhs, rhs), f - 1)
                   ELSE Res(FALSE, s)
              [] arm = "FreeVar/FreeVar" -> StructuralFreeVars(s, lhs, rhs, f - 1)
              [] arm = "FreeVar/rhs" -> StructuralLeftVar(s, lhs, rhs, f - 1)
              [] arm = "lhs/FreeVar" -> StructuralRightVar(s, lhs, rhs, f - 1)
              [] arm = "Record" -> AllSupertypeOf(s, RecordCmps(lhs, rhs), f - 1)
              [] arm = "Type/Record" ->
                   AllSupertypeOf(s, [i \in DOMAIN FieldsOf(rhs) |->
                                         Cmp(TypeT, rhs.fs[FieldsOf(rhs)[i]])], f - 1)
              [] arm = "Type/Subr" -> SupertypeOf(s, TypeT, rhs.ret, f - 1)
              [] arm = "Refinement/Refinement" ->
                   StructuralRefinements(s, lhs, rhs, SupertypeOf(s, lhs.t, rhs.t, f - 1), f - 1)
              [] arm = "Nat/Refinement" ->
                   StructuralSupertypeOf(s, IntoRefinement(NatT), rhs, f - 1)
              [] arm = "Refinement/Nat" ->
                   StructuralSupertypeOf(s, lhs, IntoRefinement(NatT), f - 1)
              [] arm = "l/Refinement" ->
                   StructuralRightRefinement(s, lhs, rhs, SupertypeOf(s, lhs, rhs.t, f - 1),
                                             f - 1)
              [] arm = "Refinement/r" -> StructuralLeftRefinement(s, lhs, rhs, f - 1)
              [] arm = "Quantified/r" -> SupertypeOf(s, lhs.t, rhs, f - 1)
              [] arm = "l/Quantified" -> StructuralSupertypeOf(s, lhs, rhs.t, f - 1)
              [] arm = "Or/Or" -> EitherPairing(s, lhs.l, lhs.r, rhs.l, rhs.r, f - 1)
              [] arm = "Or/rhs" -> AnyOf(s, Cmp(lhs.l, rhs), Cmp(lhs.r, rhs), f - 1)
              [] arm = "lhs/Or" ->
                   AllSupertypeOf(s, <<Cmp(lhs, rhs.l), Cmp(lhs, rhs.r)>>, f - 1)
              [] arm = "And/And" -> EitherPairing(s, lhs.l, lhs.r, rhs.l, rhs.r, f - 1)
              [] arm = "And/rhs" ->
                   AllSupertypeOf(s, <<Cmp(lhs.l, rhs), Cmp(lhs.r, rhs)>>, f - 1)
              [] arm = "lhs/And" -> AnyOf(s, Cmp(lhs, rhs.l), Cmp(lhs, rhs.r), f - 1)
              [] arm = "Not" -> Exc(s, "panic")
              [] arm = "Ref" ->
                   IF lhs.k = "Ref" /\ rhs.k = "Ref" THEN SupertypeOf(s, lhs.t, rhs.t, f - 1)
                   ELSE SupertypeOf(s, lhs.t, rhs, f - 1)
              [] arm = "Poly" ->
                   IF lhs.n # rhs.n \/ Len(lhs.ps) # Len(rhs.ps) THEN Res(FALSE, s)
                   ELSE IF lhs.n \in {"Array", "Set"}
                   THEN StructuralArray(s, lhs.ps, rhs.ps, f - 1)
                   ELSE PolySupertypeOf(s, lhs, lhs.ps, rhs.ps, f - 1)
              [] OTHER -> Res(FALSE, s)

\* Context::poly_supertype_of (compare.rs 648-669)
poly_supertype_of(s, typ, lparams, rparams, f) ==
    IF CtxNameOf(s, typ, MaxDepth) = "" THEN Exc(s, "panic")
    ELSE LET va == NominalCtx(CtxNameOf(s, typ, MaxDepth)).variance
             n == IF Len(va) < Len(lparams) THEN Len(va) ELSE Len(lparams)
         IN IF n = 0 THEN Res(TRUE, s)
            ELSE LET r1 == SupertypeOfTp(s, lparams[1], rparams[1], va[1], f)
                 IN IF Stop(r1) \/ ~r1.b \/ n = 1 THEN r1
                    ELSE LET r2 == SupertypeOfTp(r1.s, lparams[2], rparams[2], va[2], f)
                         IN r2

\* Context::supertype_of_tp (compare.rs 671-708)
supertype_of_tp(s, lp, rp, variance, f) ==
    IF TypeEq(s, lp, rp) THEN Res(TRUE, s)
    ELSE IF lp.k = "TpT" /\ rp.k = "TpT" /\ variance = "Contravariant"
    THEN SubtypeOf(s, lp.t, rp.t, f)
    ELSE IF lp.k = "TpT" /\ rp.k = "TpT" /\ variance = "Covariant"
    THEN SupertypeOf(s, lp.t, rp.t, f)
    ELSE IF lp.k = "TpT" /\ rp.k = "TpT" THEN SameTypeOf(s, lp.t, rp.t, f)
    ELSE Res(FALSE, s)

\* Type::Ref(t) | RefMut { before: t } => t (compare.rs 280-284)
StripRef(t) == IF t.k \in {"Ref", "RefMut"} THEN t.t ELSE t

\* the loop over the super types of rhs (compare.rs 278-303, 316-329): lhs is a
\* cheap or a structural supertype of one of them
any_super_of(s, lhs, sups, f) ==
    IF sups = <<>> THEN Res(FALSE, s)
    ELSE LET c == CheapSupertypeOf(s, lhs, sups[1])
         IN IF c.x # "" THEN Exc(s, c.x)
            ELSE IF c.c = "Absolutely" /\ c.b THEN Res(TRUE, s)
            ELSE IF c.c = "Absolutely" THEN AnySuperOf(s, lhs, Tail(sups), f)
            ELSE LET r1 == StructuralSupertypeOf(s, lhs, sups[1], f)
                 IN IF Stop(r1) \/ r1.b THEN r1 ELSE AnySuperOf(r1.s, lhs, Tail(sups), f)

\* Context::classes_supertype_of (compare.rs 273-306); b = TRUE is (Absolutely, true)
ClassesSupertypeOf(s, lhs, rhs, f) ==
    IF ~IsClass(s, lhs, MaxDepth) \/ ~IsClass(s, rhs, MaxDepth) THEN Res(FALSE, s)
    ELSE IF CtxNameOf(s, rhs, MaxDepth) = "" THEN Res(FALSE, s)
    ELSE LET sc == NominalCtx(CtxNameOf(s, rhs, MaxDepth)).super_classes
         IN AnySuperOf(s, lhs,
                       [i \in DOMAIN sc |-> IF HasQVar(s, sc[i]) THEN StripRef(rhs) ELSE sc[i]],
                       f)

\* Context::traits_supertype_of (compare.rs 311-332)
TraitsSupertypeOf(s, lhs, rhs, f) ==
    IF ~IsTrait(s, lhs, MaxDepth) THEN Res(FALSE, s)
    ELSE IF CtxNameOf(s, rhs, MaxDepth) = "" THEN Res(FALSE, s)
    ELSE AnySuperOf(s, lhs, NominalCtx(CtxNameOf(s, rhs, MaxDepth)).super_traits, f)

\* the judgement nominal_supertype_of computes when the cache has no answer
\* (compare.rs 232-241)
NominalJudge(s, lhs, rhs, f) ==
    LET r1 == ClassesSupertypeOf(s, lhs, rhs, f)
    IN IF Stop(r1) \/ r1.b THEN r1 ELSE TraitsSupertypeOf(r1.s, lhs, rhs, f)

\* Context::nominal_supertype_of (compare.rs 228-242)
nominal_supertype_of(s, lhs, rhs, f) ==
    IF f = 0 THEN Exc(s, "fuel")
    ELSE IF InquireCache(s, lhs, rhs) # <<>> THEN Res(InquireCache(s, lhs, rhs)[1], s)
    ELSE LET r == NominalJudge(s, lhs, rhs, f - 1)
         IN IF Stop(r) THEN r ELSE Res(r.b, RegisterCache(r.s, lhs, rhs, r.b))

\* ------------------------------------------ union, intersection, min
TRes(t, s) == [t |-> t, s |-> s, x |-> ""]
TExc(s, x) == [t |-> Never, s |-> s, x |-> x]
\* the pair (supertype_of(lhs, rhs), subtype_of(lhs, rhs)) both always evaluated
BothWays(s, lhs, rhs, f) ==
    LET r1 == SupertypeOf(s, lhs, rhs, f)
        r2 == SubtypeOf(r1.s, lhs, rhs, f)
    IN IF Stop(r1) THEN [sup |-> FALSE, sub |-> FALSE, s |-> r1.s, x |-> r1.x]
       ELSE [sup |-> r1.b, sub |-> r2.b, s |-> r2.s, x |-> r2.x]

\* Context::union (compare.rs 841-900)
union(s, lhs, rhs, f) ==
    IF f = 0 THEN TExc(s, "fuel")
    ELSE IF TypeEq(s, lhs, rhs) THEN TRes(lhs, s)
    ELSE LET c == IF ~IsUnboundVar(s, lhs) /\ ~IsUnboundVar(s, rhs)
                  THEN BothWays(s, lhs, rhs, f)
                  ELSE [sup |-> FALSE, sub |-> FALSE, s |-> s, x |-> ""]
         IN IF c.x # "" THEN TExc(c.s, c.x)
            ELSE IF c.sup THEN TRes(lhs, c.s)
            ELSE IF c.sub THEN TRes(rhs, c.s)
            ELSE IF lhs.k = "FreeVar" /\ rhs.k = "FreeVar"
                    /\ IsLinked(c.s, lhs.id) /\ IsLinked(c.s, rhs.id)
            THEN Union(c.s, Crack(c.s, lhs.id), Crack(c.s, rhs.id), f - 1)
            ELSE IF rhs = Never THEN TRes(lhs, c.s)
            ELSE IF lhs = Never THEN TRes(rhs, c.s)
            ELSE IF lhs.k = "Poly" /\ rhs.k = "Poly" /\ lhs.n = rhs.n
                    /\ Len(lhs.ps) = 1 /\ Len(rhs.ps) = 1
            THEN LET u == Union(c.s, lhs.ps[1].t, rhs.ps[1].t, f - 1)
                 IN IF u.x # "" THEN u ELSE TRes(Poly(lhs.n, <<TpT(u.t)>>), u.s)
            ELSE IF lhs.k = "Poly" /\ rhs.k = "Poly" /\ lhs.n = rhs.n
            THEN LET u1 == Union(c.s, lhs.ps[1].t, rhs.ps[1].t, f - 1)
                     u2 == Union(u1.s, lhs.ps[2].t, rhs.ps[2].t, f - 1)
                 IN IF u1.x # "" THEN u1
                    ELSE IF u2.x # "" THEN u2
                    ELSE TRes(Poly(lhs.n, <<TpT(u1.t), TpT(u2.t)>>), u2.s)
            ELSE TRes(Or(lhs, rhs), c.s)

\* Context::intersection (compare.rs 916-938)
intersection(s, lhs, rhs, f) ==
    IF f = 0 THEN TExc(s, "fuel")
    ELSE IF TypeEq(s, lhs, rhs) THEN TRes(lhs, s)
    ELSE LET c == IF ~IsUnboundVar(s, lhs) /\ ~IsUnboundVar(s, rhs)
                  THEN BothWays(s, lhs, rhs, f)
                  ELSE [sup |-> FALSE, sub |-> FALSE, s |-> s, x |-> ""]
         IN IF c.x # "" THEN TExc(c.s, c.x)
            ELSE IF c.sup /\ c.sub THEN TRes(lhs, c.s)
            ELSE IF c.sup THEN TRes(rhs, c.s)
            ELSE IF c.sub THEN TRes(lhs, c.s)
            ELSE IF lhs.k = "FreeVar" /\ rhs.k = "FreeVar"
                    /\ IsLinked(c.s, lhs.id) /\ IsLinked(c.s, rhs.id)
            THEN Intersection(c.s, Crack(c.s, lhs.id), Crack(c.s, rhs.id), f - 1)
            ELSE IF lhs.k = "Record" /\ rhs.k = "Record"
            THEN TRes(Record([n \in DOMAIN lhs.fs \cup DOMAIN rhs.fs |->
                                IF n \in DOMAIN rhs.fs THEN rhs.fs[n] ELSE lhs.fs[n]]), c.s)
            ELSE IF IsTrait(c.s, lhs, MaxDepth) /\ IsTrait(c.s, rhs, MaxDepth)
            THEN TRes(And(lhs, rhs), c.s)
            ELSE TRes(Never, c.s)

\* Context::min (compare.rs 1080-1087): ok = FALSE is None
Min(s, lhs, rhs, f) ==
    LET c == BothWays(s, lhs, rhs, f)
    IN [ok |-> c.sup \/ c.sub, t |-> IF c.sup THEN rhs ELSE lhs, s |-> c.s, x |-> c.x]

\* ------------------------------------------- unification engine (unify.rs)
\* the types of the parameters of a Subr in the order occur visits them
OccurParams(subr) ==
    [i \in DOMAIN subr.dp |-> subr.dp[i].t] \o [i \in DOMAIN subr.vp |-> subr.vp[i].t]
    \o [i \in DOMAIN subr.nd |-> subr.nd[i].t] \o <<subr.ret>>

RECURSIVE Occur(_, _, _)
\* Context::occur (unify.rs 30-98): TRUE is Ok(())
Occur(s, maybe_sub, maybe_sup) ==
    IF maybe_sub.k = "FreeVar" /\ maybe_sup.k = "FreeVar"
    THEN ~(IsUnbound(s, maybe_sub.id) /\ IsUnbound(s, maybe_sup.id)
           /\ maybe_sub.id = maybe_sup.id)
    ELSE IF maybe_sub.k = "Subr" /\ maybe_sup.k = "FreeVar" /\ IsUnbound(s, maybe_sup.id)
    THEN \A i \in DOMAIN OccurParams(maybe_sub) : Occur(s, OccurParams(maybe_sub)[i], maybe_sup)
    ELSE IF maybe_sub.k = "FreeVar" /\ maybe_sup.k = "Subr" /\ IsUnbound(s, maybe_sub.id)
    THEN \A i \in DOMAIN OccurParams(maybe_sup) : Occur(s, maybe_sub, OccurParams(maybe_sup)[i])
    ELSE IF maybe_sub.k = "Poly" /\ maybe_sup.k = "FreeVar" /\ IsUnbound(s, maybe_sup.id)
    THEN \A i \in DOMAIN maybe_sub.ps :
            maybe_sub.ps[i].k = "TpT" => Occur(s, maybe_sub.ps[i].t, maybe_sup)
    ELSE IF maybe_sub.k = "FreeVar" /\ maybe_sup.k = "Poly" /\ IsUnbound(s, maybe_sub.id)
    THEN \A i \in DOMAIN maybe_sup.ps :
            maybe_sup.ps[i].k = "TpT" => Occur(s, maybe_sub, maybe_sup.ps[i].t)
    ELSE TRUE

\* the error of a failed occur (unify.rs 34-41): made where the variable met
\* itself, so both of its types are the variable
OccurError(maybe_sub, maybe_sup) ==
    IF maybe_sup.k = "FreeVar" THEN SubtypingError(maybe_sup, maybe_sup)
    ELSE SubtypingError(maybe_sub, maybe_sub)

\* Type::typarams: the parameters of a polymorphic type
TyParams(t) == IF t.k = "Poly" THEN t.ps ELSE <<>>
\* zip of two parameter lists as (sub, sup) pairs
ZipPairs(ls, rs) ==
    [i \in 1..(IF Len(ls) < Len(rs) THEN Len(ls) ELSE Len(rs)) |->
        [sub |-> ls[i], sup |-> rs[i], how |-> "unify"]]
\* one step of a loop of sub_unify calls: how is "unify", "skip" for an element
\* the loop passes over (continue), "todo" for an element it panics on
UPair(sub, sup, how) == [sub |-> sub, sup |-> sup, how |-> how]

\* Constraint::new_supertype_of / new_subtype_of
NewSupertypeOf(t) == Sandwiched(t, Obj)
NewSubtypeOf(t) == Sandwiched(Never, t)


\* a sequence of sub_unify calls chained with `?`
sub_unify_all(s, ps, f) ==
    IF ps = <<>> THEN Res(TRUE, s)
    ELSE IF ps[1].how = "skip" THEN SubUnifyAll(s, Tail(ps), f)
    ELSE IF ps[1].how = "todo" THEN Exc(s, "panic")
    ELSE IF ps[1].how = "err" THEN Err(s, SubtypingError(ps[1].sub, ps[1].sup))
    ELSE LET r1 == SubUnify(s, ps[1].sub, ps[1].sup, f)
         IN IF Stop(r1) \/ ~r1.b THEN r1 ELSE SubUnifyAll(r1.s, Tail(ps), f)
\* a sequence of sub_unify_tp calls chained with `?`
sub_unify_tp_all(s, ps, f) ==
    IF ps = <<>> THEN Res(TRUE, s)
    ELSE LET r1 == SubUnifyTp(s, ps[1].sub, ps[1].sup, f)
         IN IF Stop(r1) \/ ~r1.b THEN r1 ELSE SubUnifyTpAll(r1.s, Tail(ps), f)

\* Context::sub_unify_tp (unify.rs 101-273) on type parameters that are types
sub_unify_tp(s, maybe_sub, maybe_sup, f) ==
    IF HasNoUnboundVar(s, maybe_sub) /\ HasNoUnboundVar(s, maybe_sup)
       /\ TypeEq(s, maybe_sub, maybe_sup)
    THEN Res(TRUE, s)
    ELSE IF maybe_sub.k = "TpT" /\ maybe_sup.k = "TpT"
    THEN SubUnify(s, maybe_sub.t, maybe_sup.t, f)
    ELSE Exc(s, "panic")

\* the variable of the higher level keeps the constraint
LinkToHigherLevel(s, maybe_sub, maybe_sup, new_constraint) ==
    IF LevelOf(s, maybe_sub.id) >= LevelOf(s, maybe_sup.id)
    THEN Link(UpdateConstraint(s, maybe_sub.id, new_constraint), maybe_sup.id, maybe_sub)
    ELSE Link(UpdateConstraint(s, maybe_sup.id, new_constraint), maybe_sub.id, maybe_sup)
\* the end of the sandwiched/sandwiched arm (unify.rs 575-581): the variable
\* whose level is not the higher one keeps the new constraint, the other is
\* linked to it
LinkToLowerLevel(s, maybe_sub, maybe_sup, new_constraint) ==
    IF LevelOf(s, maybe_sub.id) <= LevelOf(s, maybe_sup.id)
    THEN Link(UpdateConstraint(s, maybe_sub.id, new_constraint), maybe_sup.id, maybe_sub)
    ELSE Link(UpdateConstraint(s, maybe_sup.id, new_constraint), maybe_sub.id, maybe_sup)

\* the sandwiched/sandwiched arm of sub_unify (unify.rs 534-583)
UnifySandwiched(s, maybe_sub, maybe_sup, f) ==
    LET l == maybe_sub.id
        r == maybe_sup.id
        lsub == GetSub(s, l)
        lsup == GetSup(s, l)
        rsub == GetSub(s, r)
        rsup == GetSup(s, r)
        t1 == SubUnifyTpAll(ForcedUndoableLink(s, r, rsub),
                            ZipPairs(TyParams(lsub), TyParams(rsub)), f)
        t2 == SubUnifyTpAll(t1.s, ZipPairs(TyParams(lsup), TyParams(rsup)), f)
        t == IF Stop(t1) \/ ~t1.b THEN t1 ELSE t2
        u == EndTrial(Res(TRUE, t.s), r)
        i == Intersection(u.s, lsup, rsup, f)
        n == Union(i.s, lsub, rsub, f)
    IN IF IsGeneralized(s, l) \/ IsGeneralized(s, r) THEN Res(TRUE, s)
       ELSE IF Stop(t) THEN t
       ELSE IF Stop(u) THEN u
       ELSE IF ~t.b THEN Err(u.s, t.err)
       ELSE IF i.x # "" THEN Exc(i.s, i.x)
       ELSE IF i.t = Never THEN Err(i.s, SubtypingError(maybe_sub, maybe_sup))
       ELSE IF n.x # "" THEN Exc(n.s, n.x)
       ELSE Res(TRUE, LinkToLowerLevel(n.s, maybe_sub, maybe_sup, Sandwiched(n.t, i.t)))

\* the arm for an unbound variable on the right (unify.rs 590-630)
UnifyRightVar(s, maybe_sub, rid, f) ==
    IF HasSubSup(s, rid)
    THEN LET n == Union(s, maybe_sub, GetSub(s, rid), f)
         IN IF n.x # "" THEN Exc(n.s, n.x)
            ELSE IF ContainsUnion(n.s, GetSup(s, rid), n.t)
            THEN Res(TRUE, Link(n.s, rid, n.t))
            ELSE Res(TRUE, UpdateConstraint(n.s, rid, Sandwiched(n.t, GetSup(s, rid))))
    ELSE IF HasTypeOf(s, rid)
    THEN LET c == SupertypeOf(s, TypeT, s.h[rid].c.t, f)
         IN IF Stop(c) THEN c
            ELSE IF c.b THEN Res(TRUE, UpdateConstraint(c.s, rid, NewSupertypeOf(maybe_sub)))
            ELSE Exc(c.s, "panic")
    ELSE Exc(s, "panic")

\* the arm for an unbound variable on the left (unify.rs 631-670)
UnifyLeftVar(s, lid, maybe_sup, f) ==
    IF HasSubSup(s, lid)
    THEN LET m == Min(s, GetSup(s, lid), maybe_sup, f)
             n == Union(m.s, GetSup(s, lid), maybe_sup, f)
         IN IF m.x # "" THEN Exc(m.s, m.x)
            ELSE IF m.ok
            THEN Res(TRUE, UpdateConstraint(m.s, lid, Sandwiched(GetSub(s, lid), m.t)))
            ELSE IF n.x # "" THEN Exc(n.s, n.x)
            ELSE Res(TRUE, UpdateConstraint(n.s, lid, Sandwiched(GetSub(s, lid), n.t)))
    ELSE IF HasTypeOf(s, lid)
    THEN LET c == SupertypeOf(s, TypeT, s.h[lid].c.t, f)
         IN IF Stop(c) THEN c
            ELSE IF c.b THEN Res(TRUE, UpdateConstraint(c.s, lid, NewSubtypeOf(maybe_sup)))
            ELSE Exc(c.s, "panic")
    ELSE Exc(s, "panic")

\* Type::is_generalized
TypeIsGeneralized(s, t) ==
    LET u == Deref(s, t, MaxDepth) IN u.k = "FreeVar" /\ IsGeneralized(s, u.id)

\* the loop over the default parameters of lsub (unify.rs 690-701, 715-729,
\* 748-762): contravariant, a parameter rsub lacks is a todo!()
DefaultPairs(s, lsub, rsub, side) ==
    [i \in DOMAIN lsub.dp |->
        IF FindDefault(rsub.dp, lsub.dp[i].n) = <<>> THEN UPair(Never, Never, "todo")
        ELSE LET rpt == FindDefault(rsub.dp, lsub.dp[i].n)[1]
             IN UPair(rpt.t, lsub.dp[i].t,
                      IF (side = "l" /\ TypeIsGeneralized(s, lsub.dp[i].t))
                         \/ (side = "r" /\ TypeIsGeneralized(s, rpt.t))
                      THEN "skip" ELSE "unify")]
\* the zip of the non-default parameters, contravariant, then the return type
\* (unify.rs 703-711, 730-744, 763-778)
ParamPairs(s, lsub, rsub, side) ==
    [i \in 1..(IF Len(lsub.nd) < Len(rsub.nd) THEN Len(lsub.nd) ELSE Len(rsub.nd)) |->
        UPair(rsub.nd[i].t, lsub.nd[i].t,
              IF (side = "l" /\ TypeIsGeneralized(s, lsub.nd[i].t))
                 \/ (side = "r" /\ TypeIsGeneralized(s, rsub.nd[i].t))
              THEN "skip" ELSE "unify")]
    \o <<UPair(lsub.ret, rsub.ret,
               IF (side = "l" /\ TypeIsGeneralized(s, lsub.ret))
                  \/ (side = "r" /\ TypeIsGeneralized(s, rsub.ret))
               THEN "skip" ELSE "unify")>>
SubrPairs(s, lsub, rsub, side) ==
    DefaultPairs(s, lsub, rsub, side) \o ParamPairs(s, lsub, rsub, side)

\* the first call of `a.or_else(|_| b)` (unify.rs 821-826)
OrElse(r1, s, sub, sup, f) ==
    IF Stop(r1) \/ r1.b THEN r1 ELSE SubUnify(r1.s, sub, sup, f)

\* the arms of sub_unify for two types neither of which is a variable
\* (unify.rs 672-871)
UnifyStructure(s, maybe_sub, maybe_sup, f) ==
    IF maybe_sub.k = "Record" /\ maybe_sup.k = "Record"
    THEN SubUnifyAll(s, [i \in DOMAIN FieldsOf(maybe_sub) |->
                           IF FieldsOf(maybe_sub)[i] \in DOMAIN maybe_sup.fs
                           THEN UPair(maybe_sub.fs[FieldsOf(maybe_sub)[i]],
                                      maybe_sup.fs[FieldsOf(maybe_sub)[i]], "unify")
                           ELSE UPair(maybe_sub, maybe_sup, "err")], f)
    ELSE IF maybe_sub.k = "Subr" /\ maybe_sup.k = "Subr"
    THEN SubUnifyAll(s, SubrPairs(s, maybe_sub, maybe_sup, ""), f)
    ELSE IF maybe_sub.k = "Quantified" /\ maybe_sup.k = "Subr"
    THEN IF maybe_sub.t.k # "Subr" THEN Exc(s, "panic")
         ELSE SubUnifyAll(s, SubrPairs(s, maybe_sub.t, maybe_sup, "l"), f)
    ELSE IF maybe_sub.k = "Subr" /\ maybe_sup.k = "Quantified"
    THEN IF maybe_sup.t.k # "Subr" THEN Exc(s, "panic")
         ELSE SubUnifyAll(s, SubrPairs(s, maybe_sub, maybe_sup.t, "r"), f)
    ELSE IF maybe_sub.k = "Poly" /\ maybe_sup.k = "Poly"
    THEN IF maybe_sub.n # maybe_sup.n
         THEN NominalSubUnify(s, maybe_sub, maybe_sup, maybe_sup.ps, f)
         ELSE SubUnifyTpAll(s, ZipPairs(maybe_sub.ps, maybe_sup.ps), f)
    ELSE IF maybe_sup.k = "Poly"
    THEN NominalSubUnify(s, maybe_sub, maybe_sup, maybe_sup.ps, f)
    ELSE IF maybe_sub.k = "Or"
    THEN SubUnifyAll(s, <<UPair(maybe_sub.l, maybe_sup, "unify"),
                          UPair(maybe_sub.r, maybe_sup, "unify")>>, f)
    ELSE IF maybe_sup.k = "And"
    THEN SubUnifyAll(s, <<UPair(maybe_sub, maybe_sup.l, "unify"),
                          UPair(maybe_sub, maybe_sup.r, "unify")>>, f)
    ELSE IF maybe_sub.k = "And"
    THEN OrElse(SubUnify(s, maybe_sub.l, maybe_sup, f), s, maybe_sub.r, maybe_sup, f)
    ELSE IF maybe_sup.k = "Or"
    THEN OrElse(SubUnify(s, maybe_sub, maybe_sup.l, f), s, maybe_sub, maybe_sup.r, f)
    ELSE IF maybe_sup.k \in {"Ref", "RefMut"} THEN SubUnify(s, maybe_sub, maybe_sup.t, f)
    ELSE IF maybe_sub.k \in {"Subr", "Record"} /\ maybe_sup = TypeT THEN Res(TRUE, s)
    ELSE IF maybe_sub.k = "Poly" /\ maybe_sub.n \in {"Array", "Tuple"} /\ maybe_sup = TypeT
    THEN Res(TRUE, s)
    ELSE IF maybe_sub.k = "Poly" THEN NominalSubUnify(s, maybe_sub, maybe_sup, <<>>, f)
    ELSE IF maybe_sub.k = "Subr" /\ maybe_sup = Mono("GenericCallable") THEN Res(TRUE, s)
    ELSE Err(s, FeatureError)

\* the check is made for closed types only
UnifyPrecheckClosedOnly(s, maybe_sub, maybe_sup, f) ==
    IF FreeVarsOf(maybe_sub) \cup FreeVarsOf(maybe_sup) = {}
    THEN SubtypeOf(s, maybe_sub, maybe_sup, f) ELSE Res(TRUE, s)
\* the check is passed over
UnifyPrecheckSkipped(s, maybe_sub, maybe_sup, f) == Res(TRUE, s)
\* let maybe_sub_is_sub = self.subtype_of(maybe_sub, maybe_sup) (unify.rs 508)
UnifyPrecheck(s, maybe_sub, maybe_sup, f) == SubtypeOf(s, maybe_sub, maybe_sup, f)

\* the linked variable on the right is bound anew to maybe_sub
UnifyLinkedRightRelink(s, maybe_sub, rid, f) == Res(TRUE, Link(s, rid, maybe_sub))
\* the arm for a linked variable on the right (unify.rs 586-588): the link is
\* followed
UnifyLinkedRight(s, maybe_sub, rid, f) == SubUnify(s, maybe_sub, Crack(s, rid), f)

\* Context::sub_unify (unify.rs 490-873): b = TRUE is Ok(()), b = FALSE is Err
sub_unify(s, maybe_sub, maybe_sup, f) ==
    IF f = 0 THEN Exc(s, "fuel")
    ELSE IF TypeEq(s, maybe_sub, Never) \/ TypeEq(s, maybe_sup, Obj)
            \/ TypeEq(s, maybe_sup, maybe_sub)
    THEN Res(TRUE, s)
    ELSE IF TypeEq(s, maybe_sub, Failure) \/ TypeEq(s, maybe_sup, Failure) THEN Res(TRUE, s)
    ELSE IF ~Occur(s, maybe_sub, maybe_sup) THEN Err(s, OccurError(maybe_sub, maybe_sup))
    ELSE LET c == UnifyPrecheck(s, maybe_sub, maybe_sup, f - 1)
         IN IF Stop(c) THEN c
            ELSE IF ~c.b THEN Err(c.s, TypeMismatchError(maybe_sup, maybe_sub))
            ELSE IF HasNoUnboundVar(c.s, maybe_sub) /\ HasNoUnboundVar(c.s, maybe_sup)
            THEN Res(TRUE, c.s)
            ELSE IF maybe_sub.k = "FreeVar" /\ maybe_sup.k = "FreeVar"
                    /\ HasSubSup(c.s, maybe_sub.id) /\ HasSubSup(c.s, maybe_sup.id)
            THEN UnifySandwiched(c.s, maybe_sub, maybe_sup, f - 1)
            ELSE IF maybe_sub.k = "FreeVar" /\ IsLinked(c.s, maybe_sub.id)
            THEN SubUnify(c.s, Crack(c.s, maybe_sub.id), maybe_sup, f - 1)
            ELSE IF maybe_sup.k = "FreeVar" /\ IsLinked(c.s, maybe_sup.id)
            THEN UnifyLinkedRight(c.s, maybe_sub, maybe_sup.id, f - 1)
            ELSE IF maybe_sup.k = "FreeVar"
            THEN UnifyRightVar(c.s, maybe_sub, maybe_sup.id, f - 1)
            ELSE IF maybe_sub.k = "FreeVar"
            THEN UnifyLeftVar(c.s, maybe_sub.id, maybe_sup, f - 1)
            ELSE UnifyStructure(c.s, maybe_sub, maybe_sup, f - 1)

\* Context::substitute_typarams(qt, st): each generalized parameter of the
\* definition qt is linked, undoably, to the parameter of st at its place;
\* nothing is done when st is not an application of qt
SubstituteTyparams(s, qt, st) ==
    IF qt.k # "Poly" \/ st.k # "Poly" THEN s
    ELSE IF qt.n # st.n \/ Len(qt.ps) # Len(st.ps) THEN s
    ELSE LET At(id) == {i \in DOMAIN qt.ps :
                          /\ qt.ps[i] = TpT(FreeVar(id)) /\ st.ps[i].k = "TpT"
                          /\ IsGeneralized(s, id)}
         IN SetH(s, [id \in DOMAIN s.h |->
                        IF At(id) # {}
                        THEN UndoableLinked(s.h[id], st.ps[CHOOSE i \in At(id) : TRUE].t)
                        ELSE s.h[id]])
\* Context::undo_substitute_typarams(substituted_q): every parameter of the
\* definition that holds an undoable link goes back to the state before it
UndoSubstituteTyparams(s, substituted_q) ==
    IF substituted_q.k # "Poly" THEN s
    ELSE SetH(s, [id \in DOMAIN s.h |->
                    IF /\ \E i \in DOMAIN substituted_q.ps : substituted_q.ps[i] = TpT(FreeVar(id))
                       /\ CanUndo(s, id)
                    THEN s.h[id].prev[1] ELSE s.h[id]])

\* Ok(t) / panic of the instantiation of a definition
DRes(t, s, tv, x) == [t |-> t, s |-> s, tv |-> tv, x |-> x]
RECURSIVE InstantiateNoQVar(_, _, _)
\* Context::instantiate_t_inner (instantiate.rs 991-1139) on a type that holds
\* no generalized variable: a linked variable is followed, an unbound variable
\* must have both bounds (get_subsup().unwrap()), the type is its own instance
InstantiateNoQVar(s, t, f) ==
    IF t.k # "FreeVar" THEN ""
    ELSE IF f = 0 THEN "fuel"
    ELSE IF IsLinked(s, t.id) THEN InstantiateNoQVar(s, Crack(s, t.id), f - 1)
    ELSE IF HasSubSup(s, t.id) THEN "" ELSE "panic"
RECURSIVE InstantiateDefTps(_, _, _)
\* Context::instantiate_tp (instantiate.rs 907-988) over the parameters of a
\* definition or of one of its super traits: a generalized variable becomes
\* the fresh variable the cache holds for its name, a linked variable its
\* target
InstantiateDefTps(s, tv, ps) ==
    IF ps = <<>> THEN DRes(<<>>, s, tv, "")
    ELSE LET p == ps[1]
             id == p.t.id
             name == s.h[id].name
             s2 == NewCell(s, name, 1, s.h[id].c)
             one == IF p.k # "TpT" THEN DRes(p, s, tv, "")
                    ELSE IF p.t.k = "FreeVar" /\ IsGeneralized(s, id)
                    THEN IF name \in DOMAIN tv THEN DRes(TpT(FreeVar(tv[name])), s, tv, "")
                         ELSE DRes(TpT(FreeVar(LastId(s2))), s2,
                                   [n \in DOMAIN tv \cup {name} |->
                                       IF n = name THEN LastId(s2) ELSE tv[n]], "")
                    ELSE IF p.t.k = "FreeVar" /\ IsLinked(s, id)
                    THEN DRes(TpT(Crack(s, id)), s, tv, InstantiateNoQVar(s, p.t, MaxDepth))
                    ELSE DRes(p, s, tv, InstantiateNoQVar(s, p.t, MaxDepth))
             rest == InstantiateDefTps(one.s, one.tv, Tail(ps))
         IN IF one.x # "" THEN one
            ELSE DRes(<<one.t>> \o rest.t, rest.s, rest.tv, rest.x)
\* Context::instantiate_t_inner (instantiate.rs 991-1139) on the type of a
\* definition or on one of its super traits; it builds no error of its own
instantiate_def_t(s, tv, t) ==
    IF t.k # "Poly" THEN DRes(t, s, tv, "")
    ELSE LET r == InstantiateDefTps(s, tv, t.ps)
         IN DRes(Poly(t.n, r.t), r.s, r.tv, r.x)

\* the parameters of the definition are restored after the matching super
\* trait and after the last one, an error of sub_unify_tp returns at once
NominalReturnKeepsOnError(r, sub_def_t) ==
    IF Stop(r) \/ r.err # NoError THEN r
    ELSE [r EXCEPT !.s = UndoSubstituteTyparams(r.s, sub_def_t)]
\* the returns of the loop over the super traits (unify.rs 903-913): the
\* parameters of the definition are restored after an error of sub_unify_tp,
\* after the matching super trait and after the last super trait; a panic
\* unwinds past them
NominalReturn(r, sub_def_t) ==
    IF Stop(r) THEN r
    ELSE [r EXCEPT !.s = UndoSubstituteTyparams(r.s, sub_def_t)]

\* the loop over the super traits of maybe_sub (unify.rs 896-912)
nominal_sub_unify_loop(s, tv, maybe_sup, traits, sub_def_t, sup_params, f) ==
    IF traits = <<>> THEN NominalReturn(Res(FALSE, s), sub_def_t)
    ELSE LET i == InstantiateDefT(s, tv, traits[1])
             c == SupertypeOf(i.s, maybe_sup, traits[1], f)
         IN IF i.x # "" THEN Exc(i.s, i.x)
            ELSE IF Stop(c) THEN c
            ELSE IF c.b
            THEN NominalReturn(SubUnifyTpAll(c.s, ZipPairs(TyParams(i.t), sup_params), f),
                               sub_def_t)
            ELSE NominalSubUnifyLoop(c.s, i.tv, maybe_sup, Tail(traits), sub_def_t,
                                     sup_params, f)

\* the error after the loop found no super trait (unify.rs 915-922)
NoMatchingTrait(r, maybe_sub, maybe_sup) ==
    IF Stop(r) \/ r.b \/ r.err # NoError THEN r
    ELSE Err(r.s, UnificationError(maybe_sub, maybe_sup))

\* Context::nominal_sub_unify (unify.rs 876-923)
nominal_sub_unify(s, maybe_sub, maybe_sup, sup_params, f) ==
    IF f = 0 THEN Exc(s, "fuel")
    ELSE IF CtxNameOf(s, maybe_sub, MaxDepth) = ""
    THEN Err(s, UnificationError(maybe_sub, maybe_sup))
    ELSE LET sub_def_t == SubDefT(CtxNameOf(s, maybe_sub, MaxDepth))
             sub_ctx == NominalCtx(CtxNameOf(s, maybe_sub, MaxDepth))
             i == InstantiateDefT(s, <<>>, sub_def_t)
         IN IF i.x # "" THEN Exc(i.s, i.x)
            ELSE NoMatchingTrait(
                     NominalSubUnifyLoop(SubstituteTyparams(i.s, sub_def_t, maybe_sub),
                                         i.tv, maybe_sup, sub_ctx.super_traits,
                                         sub_def_t, sup_params, f - 1),
                     maybe_sub, maybe_sup)

\* --------------------------------- instantiation engine (instantiate.rs)
\* TyVarCache::new (instantiate.rs 51-58)
TyVarCache == [tyvar_instances |-> <<>>, already_appeared |-> {}]
\* the instantiation in progress: the store and the per-call cache
Env(s, tv) == [s |-> s, tv |-> tv]
\* Ok(t) / Err / panic of the instantiation functions
IRes(t, e) == [t |-> t, e |-> e, ok |-> TRUE, x |-> ""]
IErr(e) == [t |-> Failure, e |-> e, ok |-> FALSE, x |-> ""]
IExc(e, x) == [t |-> Failure, e |-> e, ok |-> FALSE, x |-> x]
IStop(r) == r.x # "" \/ ~r.ok
\* the Context an instantiation runs in: its level and its tv_cache
Cx(level, tv) == [level |-> level, tv |-> tv]

\* TyVarCache::push_appeared (instantiate.rs 120-122)
PushAppeared(e, name) ==
    [e EXCEPT !.tv.already_appeared = e.tv.already_appeared \cup {name}]
\* tyvar_instances.insert
InsertTyvar(e, name, tv) ==
    [e EXCEPT !.tv.tyvar_instances =
        [n \in DOMAIN e.tv.tyvar_instances \cup {name} |->
            IF n = name THEN tv ELSE e.tv.tyvar_instances[n]]]

\* TyVarCache::update_tv (instantiate.rs 140-164)
UpdateTv(e, inst, tv, f) ==
    IF inst.k # "FreeVar" THEN IExc(e, "panic")
    ELSE IF ConstraintIsUninited(e.s, inst.id)
    THEN IRes(tv, [e EXCEPT !.s = Link(e.s, inst.id, tv)])
    ELSE IF ~HasSubSup(e.s, inst.id) \/ tv.k # "FreeVar" THEN IExc(e, "panic")
    ELSE IF ~HasSubSup(e.s, tv.id) THEN IExc(e, "panic")
    ELSE LET u == Union(e.s, GetSub(e.s, inst.id), GetSub(e.s, tv.id), f)
             i == Intersection(u.s, GetSup(e.s, inst.id), GetSup(e.s, tv.id), f)
         IN IF u.x # "" THEN IExc([e EXCEPT !.s = u.s], u.x)
            ELSE IF i.x # "" THEN IExc([e EXCEPT !.s = i.s], i.x)
            ELSE IRes(tv, [e EXCEPT !.s =
                     UpdateConstraintIn(i.s, inst.id, Sandwiched(u.t, i.t), TRUE, MaxDepth)])

\* the new variable takes the entry of the name, the instance there is left as
\* it is
PushOrInitTyvarInsertOnly(e, name, tv, f) == IRes(tv, InsertTyvar(e, name, tv))
\* TyVarCache::push_or_init_tyvar (instantiate.rs 124-138)
PushOrInitTyvar(e, name, tv, f) ==
    IF name \in DOMAIN e.tv.tyvar_instances
    THEN UpdateTv(e, e.tv.tyvar_instances[name], tv, f)
    ELSE IRes(tv, InsertTyvar(e, name, tv))


\* a run of instantiate_t_inner calls chained with `?`: t is the sequence
instantiate_seq(cx, e, ts, f) ==
    IF ts = <<>> THEN IRes(<<>>, e)
    ELSE LET r1 == InstantiateTInner(cx, e, ts[1], f)
             r2 == InstantiateSeq(cx, r1.e, Tail(ts), f)
         IN IF IStop(r1) THEN r1
            ELSE IF IStop(r2) THEN r2
            ELSE IRes(<<r1.t>> \o r2.t, r2.e)

\* TyVarCache::instantiate_constraint (instantiate.rs 81-97): t is the constraint
instantiate_constraint(cx, e, constr, f) ==
    IF constr.k = "Sandwiched"
    THEN LET r == InstantiateSeq(cx, e, <<constr.sub, constr.sup>>, f)
         IN IF IStop(r) THEN r ELSE IRes(Sandwiched(r.t[1], r.t[2]), r.e)
    ELSE IF constr.k = "TypeOf"
    THEN LET r == InstantiateTInner(cx, e, constr.t, f)
         IN IF IStop(r) THEN r ELSE IRes(TypeOf(r.t), r.e)
    ELSE IRes(UninitedC, e)

\* named_free_var(name, self.level, constr) (constructors.rs 26-28)
NamedFreeVar(e, name, level, constr) == [e EXCEPT !.s = NewCell(e.s, name, level, constr)]

\* the arm of instantiate_t_inner for a generalized variable
\* (instantiate.rs 369-434)
InstantiateQVar(cx, e, id, f) ==
    LET name == e.s.h[id].name
        constr == e.s.h[id].c
    IN IF name \in DOMAIN e.tv.tyvar_instances
       THEN LET t == e.tv.tyvar_instances[name]
                nc == InstantiateConstraint(cx, e, constr, f)
            IN IF t.k = "FreeVar" /\ ConstraintIsUninited(e.s, t.id)
               THEN IF IStop(nc) THEN nc
                    ELSE IRes(t, [nc.e EXCEPT !.s =
                            UpdateConstraintIn(nc.e.s, t.id, nc.t, TRUE, MaxDepth)])
               ELSE IRes(t, e)
       ELSE IF name \in e.tv.already_appeared
       THEN LET e1 == NamedFreeVar(e, name, cx.level, UninitedC)
            IN PushOrInitTyvar(e1, name, FreeVar(LastId(e1.s)), f)
       ELSE IF name \in DOMAIN cx.tv THEN IRes(cx.tv[name], e)
       ELSE LET nc == InstantiateConstraint(cx, PushAppeared(e, name), constr, f)
                e1 == NamedFreeVar(nc.e, name, cx.level, nc.t)
            IN IF IStop(nc) THEN nc
               ELSE PushOrInitTyvar(e1, name, FreeVar(LastId(e1.s)), f)

\* the arm for a variable that is neither linked nor generalized
\* (instantiate.rs 514-521)
InstantiateFreeVar(cx, e, id, f) ==
    IF ~HasSubSup(e.s, id) THEN IExc(e, "panic")
    ELSE LET r == InstantiateSeq(cx, e, <<GetSub(e.s, id), GetSup(e.s, id)>>, f)
         IN IF IStop(r) THEN r
            ELSE IRes(FreeVar(id), [r.e EXCEPT !.s =
                    UpdateConstraintIn(r.e.s, id, Sandwiched(r.t[1], r.t[2]), TRUE, MaxDepth)])

\* the parameter types of a Subr in the order they are instantiated, then the
\* return type (instantiate.rs 446-467)
SubrTypes(t) ==
    [i \in DOMAIN t.nd |-> t.nd[i].t] \o [i \in DOMAIN t.vp |-> t.vp[i].t]
    \o [i \in DOMAIN t.dp |-> t.dp[i].t] \o <<t.ret>>
\* subr_t of the instantiated parts
RebuildSubr(t, ts) ==
    Subr(t.kind,
         [i \in DOMAIN t.nd |-> ParamTy(t.nd[i].n, ts[i])],
         [i \in DOMAIN t.vp |-> ParamTy(t.vp[i].n, ts[Len(t.nd) + i])],
         [i \in DOMAIN t.dp |-> ParamTy(t.dp[i].n, ts[Len(t.nd) + Len(t.vp) + i])],
         ts[Len(ts)])

\* Context::instantiate_t_inner (instantiate.rs 359-539)
instantiate_t_inner(cx, e, unbound, f) ==
    IF f = 0 THEN IExc(e, "fuel")
    ELSE IF unbound.k = "FreeVar" /\ IsLinked(e.s, unbound.id)
    THEN InstantiateTInner(cx, e, Crack(e.s, unbound.id), f - 1)
    ELSE IF unbound.k = "FreeVar" /\ IsGeneralized(e.s, unbound.id)
    THEN InstantiateQVar(cx, e, unbound.id, f - 1)
    ELSE IF unbound.k = "Subr"
    THEN LET r == InstantiateSeq(cx, e, SubrTypes(unbound), f - 1)
         IN IF IStop(r) THEN r ELSE IRes(RebuildSubr(unbound, r.t), r.e)
    ELSE IF unbound.k = "Record"
    THEN LET r == InstantiateSeq(cx, e, [i \in DOMAIN FieldsOf(unbound) |->
                                            unbound.fs[FieldsOf(unbound)[i]]], f - 1)
         IN IF IStop(r) THEN r
            ELSE IRes(Record([n \in DOMAIN unbound.fs |->
                        r.t[CHOOSE i \in DOMAIN FieldsOf(unbound) : FieldsOf(unbound)[i] = n]]),
                      r.e)
    ELSE IF unbound.k \in {"Ref", "RefMut"}
    THEN LET r == InstantiateTInner(cx, e, unbound.t, f - 1)
         IN IF IStop(r) THEN r ELSE IRes([k |-> unbound.k, t |-> r.t], r.e)
    ELSE IF unbound.k = "Poly"
    THEN LET r == InstantiateSeq(cx, e, [i \in DOMAIN unbound.ps |-> unbound.ps[i].t], f - 1)
         IN IF IStop(r) THEN r
            ELSE IRes(Poly(unbound.n, [i \in DOMAIN r.t |-> TpT(r.t[i])]), r.e)
    ELSE IF unbound.k = "Quantified" THEN IErr(e)
    ELSE IF unbound.k = "FreeVar" THEN InstantiateFreeVar(cx, e, unbound.id, f - 1)
    ELSE IF unbound.k \in {"And", "Or"}
    THEN LET r == InstantiateSeq(cx, e, <<unbound.l, unbound.r>>, f - 1)
             m == IF unbound.k = "And" THEN Intersection(r.e.s, r.t[1], r.t[2], f - 1)
                  ELSE Union(r.e.s, r.t[1], r.t[2], f - 1)
         IN IF IStop(r) THEN r
            ELSE IF m.x # "" THEN IExc([r.e EXCEPT !.s = m.s], m.x)
            ELSE IRes(m.t, [r.e EXCEPT !.s = m.s])
    ELSE IF unbound.k \in {"Prim", "Mono"} THEN IRes(unbound, e)
    ELSE IErr(e)

\* Context::instantiate (instantiate.rs 541-578) of a type without a receiver:
\* the per-call cache is dropped, t is the instance
instantiate(cx, s, quantified, f) ==
    IF f = 0 THEN IExc(Env(s, TyVarCache), "fuel")
    ELSE IF quantified.k = "FreeVar" /\ IsLinked(s, quantified.id)
    THEN Instantiate(cx, s, Crack(s, quantified.id), f - 1)
    ELSE IF quantified.k = "Quantified"
    THEN InstantiateTInner(cx, Env(s, TyVarCache), quantified.t, f - 1)
    ELSE IRes(quantified, Env(s, TyVarCache))

\* the body of the function a call names, applied to the arguments of the call
Run(call) ==
    CASE call[1] = "supertype_of" ->
             supertype_of(call[2], call[3], call[4], call[5])
      [] call[1] = "same_type_of" ->
             same_type_of(call[2], call[3], call[4], call[5])
      [] call[1] = "structural_supertype_of" ->
             structural_supertype_of(call[2], call[3], call[4], call[5])
      [] call[1] = "nominal_supertype_of" ->
             nominal_supertype_of(call[2], call[3], call[4], call[5])
      [] call[1] = "all_supertype_of" ->
             all_supertype_of(call[2], call[3], call[4])
      [] call[1] = "any_super_of" ->
             any_super_of(call[2], call[3], call[4], call[5])
      [] call[1] = "supertype_of_tp" ->
             supertype_of_tp(call[2], call[3], call[4], call[5], call[6])
      [] call[1] = "poly_supertype_of" ->
             poly_supertype_of(call[2], call[3], call[4], call[5], call[6])
      [] call[1] = "union" ->
             union(call[2], call[3], call[4], call[5])
      [] call[1] = "intersection" ->
             intersection(call[2], call[3], call[4], call[5])
      [] call[1] = "sub_unify" ->
             sub_unify(call[2], call[3], call[4], call[5])
      [] call[1] = "sub_unify_tp" ->
             sub_unify_tp(call[2], call[3], call[4], call[5])
      [] call[1] = "sub_unify_all" ->
             sub_unify_all(call[2], call[3], call[4])
      [] call[1] = "sub_unify_tp_all" ->
             sub_unify_tp_all(call[2], call[3], call[4])
      [] call[1] = "nominal_sub_unify" ->
             nominal_sub_unify(call[2], call[3], call[4], call[5], call[6])
      [] call[1] = "instantiate_def_t" -> instantiate_def_t(call[2], call[3], call[4])
      [] call[1] = "nominal_sub_unify_loop" ->
             nominal_sub_unify_loop(call[2], call[3], call[4], call[5], call[6],
                                    call[7], call[8])
      [] call[1] = "instantiate_t_inner" ->
             instantiate_t_inner(call[2], call[3], call[4], call[5])
      [] call[1] = "instantiate_constraint" ->
             instantiate_constraint(call[2], call[3], call[4], call[5])
      [] call[1] = "instantiate_seq" ->
             instantiate_seq(call[2], call[3], call[4], call[5])
      [] call[1] = "instantiate" ->
             instantiate(call[2], call[3], call[4], call[5])

\* ------------------------------------------------------ the state machine
NoCall ==
    [op |-> "none", l |-> Never, r |-> Never, b |-> FALSE, x |-> "", err |-> NoError,
     t |-> Never,
     pre |-> <<>>, precache |-> <<>>, trials |-> 0, prev |-> <<>>]
\* the record of a call that returned the boolean r.b (or panicked, r.x)
Called(op, l, r, res) ==
    [op |-> op, l |-> l, r |-> r, b |-> res.b, x |-> res.x, err |-> res.err, t |-> Never,
     pre |-> cells, precache |-> cache, trials |-> res.s.trials, prev |-> <<>>]
\* a panic ends the run: no call is made after it
Running == last.x = "" /\ nops < MaxOps
\* the store a call starts in
Now == Store(cells, cache, 0)
\* what a call that returned leaves behind; a panicked call leaves the run dead
Leave(res) ==
    /\ cells' = IF res.x = "" THEN res.s.h ELSE cells
    /\ cache' = IF res.x = "" THEN res.s.cache ELSE cache
    /\ nops' = nops + 1

\* ---- the comparison driver: queries over a heap of variables
\* the heaps the queries run on: two variables, bounded, typed or linked
CmpHeaps ==
    {<<Unbound("", 1, Sandwiched(Never, IntT)), Unbound("", 1, Sandwiched(NatT, Obj))>>,
     <<Unbound("", 1, Sandwiched(Never, Add(FreeVar(1)))), Linked("", 1, NatT)>>,
     <<Unbound("", 1, Sandwiched(Never, Obj)), Unbound("", 1, TypeOf(TypeT))>>}
\* the types the queries compare
CmpTypes ==
    {IntT, NatT, Str, Num, Add(IntT), Or(IntT, Str), FreeVar(1), FreeVar(2),
     Add(FreeVar(2))}

InitCmp ==
    /\ cells \in CmpHeaps
    /\ cache = <<>>
    /\ ctx_tv = <<>>
    /\ args = <<>>
    /\ last = NoCall
    /\ nops = 0

DoSupertypeOf ==
    /\ Running
    /\ \E lhs \in CmpTypes, rhs \in CmpTypes :
         LET res == SupertypeOf(Now, lhs, rhs, MaxDepth)
         IN /\ Leave(res)
            /\ last' = Called("supertype_of", lhs, rhs, res)
    /\ UNCHANGED <<ctx_tv, args>>

DoSubtypeOf ==
    /\ Running
    /\ \E lhs \in CmpTypes, rhs \in CmpTypes :
         LET res == SubtypeOf(Now, lhs, rhs, MaxDepth)
         IN /\ Leave(res)
            /\ last' = Called("subtype_of", lhs, rhs, res)
    /\ UNCHANGED <<ctx_tv, args>>

DoSameTypeOf ==
    /\ Running
    /\ \E lhs \in CmpTypes, rhs \in CmpTypes :
         LET res == SameTypeOf(Now, lhs, rhs, MaxDepth)
         IN /\ Leave(res)
            /\ last' = Called("same_type_of", lhs, rhs, res)
    /\ UNCHANGED <<ctx_tv, args>>

NextCmp == DoSupertypeOf \/ DoSubtypeOf \/ DoSameTypeOf
SpecCmp == InitCmp /\ [][NextCmp]_vars

IsQuery == last.op \in {"supertype_of", "subtype_of", "same_type_of"} /\ last.x = ""

\* C1: when a subtype query returns, every free-variable cell has exactly the
\* state (unbound or linked, target, constraint) it had before the call: every
\* trial link placed during the call has been undone.
C1_QueryLeavesCells == IsQuery => cells = last.pre
\* a query that placed trial links returned
C1_Witness == IsQuery /\ last.trials >= 2 /\ last.b

\* the boolean the query of `last` gives when the cache is empty
Recomputed ==
    CASE last.op = "supertype_of" ->
           SupertypeOf(Store(last.pre, <<>>, 0), last.l, last.r, MaxDepth).b
      [] last.op = "subtype_of" ->
           SubtypeOf(Store(last.pre, <<>>, 0), last.l, last.r, MaxDepth).b
      [] OTHER -> SameTypeOf(Store(last.pre, <<>>, 0), last.l, last.r, MaxDepth).b
\* C4: the cache is transparent: a query answers with the boolean a full
\* recomputation with an empty cache gives, whatever earlier queries cached.
C4_CacheTransparent == IsQuery => last.b = Recomputed
\* a query answered true from an entry an earlier query had cached
C4_Witness ==
    /\ last.op = "supertype_of" /\ last.x = "" /\ last.b
    /\ CacheKey(last.r, last.l) \in DOMAIN last.precache
    /\ cache = last.precache

\* ---- the unification driver: variables are created, then unified and queried
\* the constraints and levels free_var is called with
UnifyConstraints ==
    {Sandwiched(Never, Obj), Sandwiched(Never, NatT), Sandwiched(IntT, Obj), TypeOf(TypeT)}
UnifyLevels == {1, 2}
\* the types sub_unify is called on: the variables made so far among them
UnifyTypes ==
    {Failure, IntT, NatT, Str, Or(IntT, Str)}
    \cup {FreeVar(id) : id \in DOMAIN cells}
    \cup {Add(FreeVar(id)) : id \in DOMAIN cells \cap {1}}

InitUnify ==
    /\ cells = <<>>
    /\ cache = <<>>
    /\ ctx_tv = <<>>
    /\ args = <<>>
    /\ last = NoCall
    /\ nops = 0

\* free_var(level, constraint) (constructors.rs 21-23)
NewFreeVar ==
    /\ Running /\ nops = 0
    /\ Len(cells) < MaxVars
    /\ \E c \in UnifyConstraints, lev \in UnifyLevels :
         /\ cells = <<>> => lev = 1
         /\ cells' = Append(cells, Unbound("", lev, c))
    /\ UNCHANGED <<cache, ctx_tv, args, last, nops>>

DoSubUnify ==
    /\ Running
    /\ \E maybe_sub \in UnifyTypes, maybe_sup \in UnifyTypes :
         LET res == SubUnify(Now, maybe_sub, maybe_sup, MaxDepth)
         IN /\ Leave(res)
            /\ last' = Called("sub_unify", maybe_sub, maybe_sup, res)
    /\ UNCHANGED <<ctx_tv, args>>

\* a variable generalize has closed over: named, at the generic level, its bound
\* mentioning itself or not
NewQVar ==
    /\ Running /\ nops = 0
    /\ cells = <<>>
    /\ \E c \in {Sandwiched(Never, Obj), Sandwiched(Never, Add(FreeVar(1)))} :
         cells' = <<Unbound("T", GenericLevel, c)>>
    /\ UNCHANGED <<cache, ctx_tv, args, last, nops>>

\* the result of an instantiation as the record of a call: b is Ok
CallOf(r) == [b |-> r.ok, s |-> r.e.s, x |-> r.x, err |-> NoError]
\* instantiate of a quantified function type over a variable made so far
DoInstantiateVar ==
    /\ Running
    /\ \E id \in DOMAIN cells :
         LET quantified == Quantified(Func1(FreeVar(id), FreeVar(id)))
             r == Instantiate(Cx(1, ctx_tv), Now, quantified, MaxDepth)
         IN /\ Leave(CallOf(r))
            /\ last' = [Called("instantiate", quantified, Never, CallOf(r)) EXCEPT !.t = r.t]
    /\ UNCHANGED <<ctx_tv, args>>

\* a subtype query between two unifications
DoQuery ==
    /\ Running /\ nops > 0
    /\ \E lhs \in UnifyTypes, rhs \in {FreeVar(id) : id \in DOMAIN cells} :
         LET res == SupertypeOf(Now, lhs, rhs, MaxDepth)
         IN /\ Leave(res)
            /\ last' = Called("supertype_of", lhs, rhs, res)
    /\ UNCHANGED <<ctx_tv, args>>

NextUnify == NewFreeVar \/ NewQVar \/ DoSubUnify \/ DoQuery \/ DoInstantiateVar
SpecUnify == InitUnify /\ [][NextUnify]_vars

\* sub_unify returned Ok(())
UnifiedOk == last.op = "sub_unify" /\ last.x = "" /\ last.b
\* subtype_of(last.l, last.r) in the state the call left
SubtypeAfter == SubtypeOf(Store(cells, cache, 0), last.l, last.r, MaxDepth)

SandwichOk(id) ==
    LET r == SubtypeOf(Store(cells, cache, 0), GetSub(Now, id), GetSup(Now, id), MaxDepth)
    IN r.x # "" \/ r.b
\* C3: after any sequence of sub_unify calls, every unbound free variable whose
\* constraint is Sandwiched{sub, sup} satisfies sub <: sup: an update that would
\* break this is rejected instead of being stored.
C3_SandwichInvariant == \A id \in DOMAIN cells : HasSubSup(Now, id) => SandwichOk(id)

\* C9: once a cell is permanently linked, no later operation of the engines
\* changes its state, its target or its constraint.
C9_LinkedIsFinal ==
    [][\A id \in DOMAIN cells :
          cells[id].st = "Linked" => id \in DOMAIN cells' /\ cells'[id] = cells[id]]_vars
\* an operation ran on a heap with a linked variable and changed another variable
C9_Witness ==
    /\ last.op = "sub_unify" /\ last.x = "" /\ last.b
    /\ \E id \in DOMAIN last.pre : last.pre[id].st = "Linked"
    /\ last.r.k = "FreeVar" /\ last.pre[last.r.id].st = "Linked"
    /\ cells # last.pre

\* C11: sub_unify never panics: for every pair of types it returns Ok or an
\* error value.
C11_SubUnifyNoPanic == last.op = "sub_unify" => last.x # "panic"

\* ---- the algebra driver: the laws of union and intersection on three types
\* the types the laws are tried on
AlgTypes == {IntT, NatT, Bool, Str, Ratio, Num, Or(IntT, Str), Or(NatT, Bool),
             And(IntT, Ratio), And(NatT, Str), And(Num, Eq)}

InitAlg ==
    /\ cells = <<>>
    /\ cache = <<>>
    /\ ctx_tv = <<>>
    /\ args \in {<<a, b, c>> : a \in AlgTypes, b \in AlgTypes, c \in AlgTypes}
    /\ last = NoCall
    /\ nops = 0

\* the record of three queries: whole, and the two it is said to split into
Called3(op, whole, q1, q2) ==
    [op |-> op, b |-> whole.b, b1 |-> q1.b, b2 |-> q2.b,
     x |-> IF whole.x # "" THEN whole.x ELSE IF q1.x # "" THEN q1.x ELSE q2.x]

\* the three queries have returned: the store of the last one that ran stays
Queried3(op, whole, q1, q2) ==
    /\ Leave(IF Stop(whole) THEN whole ELSE IF Stop(q1) THEN q1 ELSE q2)
    /\ last' = Called3(op, whole, q1, q2)
\* the third query runs in the store the second left
Queried2(op, whole, q1, l2, r2) ==
    Queried3(op, whole, q1, SubtypeOf(q1.s, l2, r2, MaxDepth))
\* the second query runs in the store the first left
Queried1(op, whole, l1, r1, l2, r2) ==
    Queried2(op, whole, SubtypeOf(whole.s, l1, r1, MaxDepth), l2, r2)

\* subtype_of(A or B, C), then subtype_of(A, C) and subtype_of(B, C)
DoOrDistribute ==
    /\ Running
    /\ Queried1("or_distribute",
                SubtypeOf(Now, Or(args[1], args[2]), args[3], MaxDepth),
                args[1], args[3], args[2], args[3])
    /\ UNCHANGED <<ctx_tv, args>>

\* subtype_of(A, B and C), then subtype_of(A, B) and subtype_of(A, C)
DoAndDistribute ==
    /\ Running
    /\ Queried1("and_distribute",
                SubtypeOf(Now, args[1], And(args[2], args[3]), MaxDepth),
                args[1], args[2], args[1], args[3])
    /\ UNCHANGED <<ctx_tv, args>>

NextAlg == DoOrDistribute \/ DoAndDistribute
SpecAlg == InitAlg /\ [][NextAlg]_vars

\* C7: (A or B) <: C exactly when A <: C and B <: C, also when C is a union.
C7_OrDistributes ==
    last.op = "or_distribute" /\ last.x = "" => (last.b <=> (last.b1 /\ last.b2))

\* C8: A <: (B and C) exactly when A <: B and A <: C, also when A is an
\* intersection.
C8_AndDistributes ==
    last.op = "and_distribute" /\ last.x = "" => (last.b <=> (last.b1 /\ last.b2))

\* ---- the instantiation driver: a polymorphic type is instantiated repeatedly
\* the calls one run makes
MaxCalls == 3
\* a generalized variable named name with the upper bound sup
QVar(name, sup) == Unbound(name, GenericLevel, Sandwiched(Never, sup))
\* the variables generalize closed over: T alone, T bounded by itself, T and U
\* bounded by each other
PolyHeaps ==
    {<<QVar("T", Obj), QVar("U", Obj)>>,
     <<QVar("T", Add(FreeVar(1))), QVar("U", NatT)>>,
     <<QVar("T", Add(FreeVar(2))), QVar("U", Pair(FreeVar(1), FreeVar(1)))>>}
\* the quantified function types over them
PolyTypes ==
    {Quantified(Func1(FreeVar(1), FreeVar(1))),
     Quantified(Func1(FreeVar(1), FreeVar(2))),
     Quantified(Func2(FreeVar(1), FreeVar(1), FreeVar(2))),
     Quantified(Func2(FreeVar(1), FreeVar(2), Add(FreeVar(1))))}

InitInst ==
    /\ cells \in PolyHeaps
    /\ cache = <<>>
    /\ ctx_tv = <<>>
    /\ args \in {<<q>> : q \in PolyTypes}
    /\ last = NoCall
    /\ nops = 0

\* Context::instantiate_ty_bounds (instantiate_spec.rs 114-199) of one bound
\* `name` or `name <: Int`: the enclosing generic definition binds name in the
\* tv_cache of the context
InstantiateTyBound ==
    /\ nops = 0 /\ DOMAIN ctx_tv = {}
    /\ \E name \in {"T", "U"}, constr \in {TypeOf(TypeT), NewSubtypeOf(IntT)} :
         /\ cells' = Append(cells, Unbound(name, 1, constr))
         /\ ctx_tv' = [n \in {name} |-> FreeVar(Len(cells) + 1)]
    /\ UNCHANGED <<cache, args, last, nops>>

\* Context::instantiate(args[1], None)
DoInstantiate ==
    /\ last.x = "" /\ nops < MaxCalls
    /\ LET r == Instantiate(Cx(1, ctx_tv), Now, args[1], MaxDepth)
       IN /\ Leave(CallOf(r))
          /\ last' = [Called("instantiate", args[1], Never, CallOf(r)) EXCEPT
                        !.t = r.t,
                        !.prev = IF last.op = "instantiate" /\ last.b
                                 THEN <<last.t>> ELSE <<>>]
    /\ UNCHANGED <<ctx_tv, args>>

\* sub_unify of a type with a variable of the instance the last call returned
DoConstrain ==
    /\ last.x = "" /\ nops < MaxCalls
    /\ last.op = "instantiate" /\ last.b
    /\ \E id \in FreeVarsOf(last.t), maybe_sub \in {NatT, Str} :
         LET res == SubUnify(Now, maybe_sub, FreeVar(id), MaxDepth)
         IN /\ Leave(res)
            /\ last' = Called("sub_unify", maybe_sub, FreeVar(id), res)
    /\ UNCHANGED <<ctx_tv, args>>

NextInst == InstantiateTyBound \/ DoInstantiate \/ DoConstrain
SpecInst == InitInst /\ [][NextInst]_vars

\* the cells a cell mentions: the target of a link, the bounds of a constraint
CellVars(h, id) ==
    IF h[id].st # "Unbound" THEN FreeVarsOf(h[id].t)
    ELSE IF h[id].c.k = "Sandwiched"
    THEN FreeVarsOf(h[id].c.sub) \cup FreeVarsOf(h[id].c.sup)
    ELSE IF h[id].c.k = "TypeOf" THEN FreeVarsOf(h[id].c.t)
    ELSE {}
RECURSIVE ReachIn(_, _, _)
ReachIn(h, ids, n) ==
    LET more == ids \cup UNION {CellVars(h, id) : id \in ids}
    IN IF more = ids \/ n = 0 THEN ids ELSE ReachIn(h, more, n - 1)
\* the cells reachable from the type t, through links and constraints
Reach(h, t) == ReachIn(h, FreeVarsOf(t), Len(h))

\* instantiate has just returned Ok
Instantiated == last.op = "instantiate" /\ last.x = "" /\ last.b

\* C5: two calls to instantiate on the same quantified type return types that
\* share no free-variable cell: no cell is reachable from both results.
C5_FreshPerCall ==
    Instantiated /\ last.prev # <<>> =>
        Reach(cells, last.t) \cap Reach(cells, last.prev[1]) = {}

\* C6: within one call every occurrence of a generalized name resolves to one
\* cell: the unbound cells reachable from the result that carry the same name
\* are the same cell.
C6_OneCellPerName ==
    Instantiated =>
        \A a \in Reach(cells, last.t), b \in Reach(cells, last.t) :
            /\ cells[a].st = "Unbound" /\ cells[b].st = "Unbound"
            /\ cells[a].name # "" /\ cells[a].name = cells[b].name
            => a = b

\* C10: when instantiate returns Ok, no cell reachable from the returned type
\* has the constraint Uninited.
C10_NoUninited ==
    Instantiated => \A id \in Reach(cells, last.t) : cells[id].c.k # "Uninited"
\* the call made a placeholder for an inner reference, now linked to the
\* finished variable, which is part of the result
C10_Witness ==
    /\ Instantiated
    /\ \E id \in Reach(cells, last.t) :
          /\ id > Len(last.pre) /\ cells[id].st = "Linked"
          /\ cells[id].t.k = "FreeVar" /\ cells[id].t.id \in FreeVarsOf(last.t)

\* a call has returned res: the record of it and the state it leaves
Returned(op, l, r, res) ==
    /\ Leave(res)
    /\ last' = Called(op, l, r, res)

\* ---- the subroutine driver: sub_unify of two function types of one parameter
\* the parameter types and the return types
SubrParams == {IntT, NatT, Bool, Str, Ratio, Obj, Never, Or(IntT, Str), FreeVar(1)}
SubrReturns == {IntT, NatT, Str}
\* the heap: the variable ?1 a parameter may be, unconstrained or below Int
SubrHeaps ==
    {<<Unbound("", 1, Sandwiched(Never, Obj))>>, <<Unbound("", 1, Sandwiched(Never, IntT))>>}

InitSubr ==
    /\ cells \in SubrHeaps
    /\ cache = <<>>
    /\ ctx_tv = <<>>
    /\ args \in {<<p1, p2, r>> : p1 \in SubrParams, p2 \in SubrParams, r \in SubrReturns}
    /\ last = NoCall
    /\ nops = 0

\* sub_unify((P1) -> R, (P2) -> R): a function of the first type is passed where
\* the second is expected
DoSubUnifySubr ==
    /\ Running
    /\ Returned("sub_unify", Func1(args[1], args[3]), Func1(args[2], args[3]),
                SubUnify(Now, Func1(args[1], args[3]), Func1(args[2], args[3]), MaxDepth))
    /\ UNCHANGED <<ctx_tv, args>>

NextSubr == DoSubUnifySubr
SpecSubr == InitSubr /\ [][NextSubr]_vars

\* subtype_of(P2, P1) in the state the call left
ParamSubtypeAfter == SubtypeOf(Now, args[2], args[1], MaxDepth)
\* C12: subroutine subtyping is contravariant in the parameter: sub_unify of
\* (P1) -> R with (P2) -> R returns Ok only if P2 <: P1; (Nat) -> Int where
\* (Int) -> Int is expected is an error, (Int) -> Int where (Nat) -> Int is
\* expected is Ok.
C12_ParamContravariant ==
    last.op = "sub_unify" /\ last.x = "" =>
        /\ last.b /\ ParamSubtypeAfter.x = "" => ParamSubtypeAfter.b
        /\ args = <<NatT, IntT, IntT>> => ~last.b
        /\ args = <<IntT, NatT, IntT>> => last.b
\* a function was accepted whose parameter type is strictly wider
C12_Witness ==
    /\ last.op = "sub_unify" /\ last.x = "" /\ last.b
    /\ args = <<IntT, NatT, IntT>>

\* ---- the refinement driver: queries over refinements of Int by one predicate
\* the integer literals of the predicates are 0..MaxLit
MaxLit == 3
RefineLits == 0..MaxLit
RefinePreds(var) ==
    {PredEq(var, TpValue(a)) : a \in RefineLits} \cup {PredGe(var, TpValue(a)) : a \in RefineLits}
    \cup {PredLe(var, TpValue(a)) : a \in RefineLits}
    \cup {PredNe(var, TpValue(0)), PredGe(var, TpNegInf), PredLe(var, TpInf)}
RefineTypes ==
    {Refinement("x", IntT, {p}) : p \in RefinePreds("x")}
    \cup {Refinement("n", IntT, {PredGe("n", TpValue(0))}), Refinement("x", Str, {PredEq("x", TpValue(3))}),
          Refinement("x", IntT, {PredGe("x", TpValue(0)), PredLe("x", TpValue(MaxLit))}),
          IntT, NatT, Bool, Str}

InitRefine ==
    /\ cells = <<>>
    /\ cache = <<>>
    /\ ctx_tv = <<>>
    /\ args \in RefineTypes \X RefineTypes
    /\ last = NoCall
    /\ nops = 0

\* Context::subtype_of of the two types
DoRefineSubtypeOf ==
    /\ Running
    /\ Returned("subtype_of", args[1], args[2], SubtypeOf(Now, args[1], args[2], MaxDepth))
    /\ UNCHANGED <<ctx_tv, args>>

\* Context::sub_unify of the two types
DoRefineSubUnify ==
    /\ Running
    /\ Returned("sub_unify", args[1], args[2], SubUnify(Now, args[1], args[2], MaxDepth))
    /\ UNCHANGED <<ctx_tv, args>>

NextRefine == DoRefineSubtypeOf \/ DoRefineSubUnify
SpecRefine == InitRefine /\ [][NextRefine]_vars

\* {x: Int | x == a} and {x: Int | x >= a}
LowerBounded(a) ==
    {Refinement("x", IntT, {PredEq("x", TpValue(a))}),
     Refinement("x", IntT, {PredGe("x", TpValue(a))})}

\* C13: refinement bounds widen in one direction only: for integer literals a
\* and b, {x: Int | x == a} <: {x: Int | x >= b} and {x: Int | x >= a} <:
\* {x: Int | x >= b} each hold exactly when a >= b; {x: Int | x == 3} <:
\* {x: Int | x >= 0} holds and {x: Int | x >= 0} <: {x: Int | x >= 3} does not.
C13_BoundsWiden ==
    last.op = "subtype_of" =>
        /\ \A a \in RefineLits, b \in RefineLits :
              last.l \in LowerBounded(a) /\ last.r = Refinement("x", IntT, {PredGe("x", TpValue(b))})
                  => last.x = "" /\ (last.b <=> a >= b)
        /\ last.l = Refinement("x", IntT, {PredEq("x", TpValue(3))})
              /\ last.r = Refinement("x", IntT, {PredGe("x", TpValue(0))}) => last.b
        /\ last.l = Refinement("x", IntT, {PredGe("x", TpValue(0))})
              /\ last.r = Refinement("x", IntT, {PredGe("x", TpValue(3))}) => ~last.b
\* the query {x: Int | x == 3} <: {x: Int | x >= 0} was answered true
C13_Witness ==
    /\ last.op = "subtype_of" /\ last.x = "" /\ last.b
    /\ last.l = Refinement("x", IntT, {PredEq("x", TpValue(3))})
    /\ last.r = Refinement("x", IntT, {PredGe("x", TpValue(0))})

\* C14: passing an Int where {n: Int | n >= 0} is expected is rejected:
\* sub_unify(Int, {n: Int | n >= 0}) returns an error whose kind is
\* SubtypingError and whose expected and found types are {n: Int | n >= 0} and
\* Int.
C14_IntRejectedBySubtypingError ==
    last.op = "sub_unify" /\ last.l = IntT
    /\ last.r = Refinement("n", IntT, {PredGe("n", TpValue(0))})
        => /\ last.x = "" /\ ~last.b
           /\ last.err = TyCheckError("SubtypingError",
                                      Refinement("n", IntT, {PredGe("n", TpValue(0))}), IntT)

\* ---- the array driver: supertype_of over arrays and sets of literal length
\* the lengths are 0..MaxLen
MaxLen == 3
ArrayElems == {IntT, NatT, Str}
ArrayTypes ==
    {ArrayT(t, TpValue(n)) : t \in ArrayElems, n \in 0..MaxLen}
    \cup {SetT(t, TpValue(n)) : t \in ArrayElems, n \in 0..MaxLen}

InitArray ==
    /\ cells = <<>>
    /\ cache = <<>>
    /\ ctx_tv = <<>>
    /\ args \in ArrayTypes \X ArrayTypes
    /\ last = NoCall
    /\ nops = 0

\* Context::supertype_of of the two types
DoArraySupertypeOf ==
    /\ Running
    /\ Returned("supertype_of", args[1], args[2], SupertypeOf(Now, args[1], args[2], MaxDepth))
    /\ UNCHANGED <<ctx_tv, args>>
\* Context::subtype_of of the two types
DoArraySubtypeOf ==
    /\ Running
    /\ Returned("subtype_of", args[1], args[2], SubtypeOf(Now, args[1], args[2], MaxDepth))
    /\ UNCHANGED <<ctx_tv, args>>

NextArray == DoArraySupertypeOf \/ DoArraySubtypeOf
SpecArray == InitArray /\ [][NextArray]_vars

\* C15: for the built-in Array (and Set) with the same element type and
\* literal lengths m and n, supertype_of(Array(T, m), Array(T, n)) is true
\* exactly when m <= n; Array(Int, 3) <: Array(Int, 2) is true and
\* Array(Int, 2) <: Array(Int, 3) is false.
C15_ArrayLength ==
    /\ last.op = "supertype_of" /\ last.l.n = last.r.n /\ last.l.ps[1] = last.r.ps[1]
          => last.x = "" /\ (last.b <=> last.l.ps[2].v <= last.r.ps[2].v)
    /\ last.op = "subtype_of" /\ last.l = ArrayT(IntT, TpValue(3))
          /\ last.r = ArrayT(IntT, TpValue(2)) => last.x = "" /\ last.b
    /\ last.op = "subtype_of" /\ last.l = ArrayT(IntT, TpValue(2))
          /\ last.r = ArrayT(IntT, TpValue(3)) => last.x = "" /\ ~last.b
\* the lengths differ and the longer array was found to be the subtype
C15_Witness ==
    /\ last.op = "supertype_of" /\ last.x = "" /\ last.b
    /\ last.l = SetT(Str, TpValue(1)) /\ last.r = SetT(Str, TpValue(3))

\* ---- the tower driver: queries over the built-in classes
TowerTypes == {Float, Ratio, IntT, NatT, Bool}
BuiltinTypes == TowerTypes \cup {Obj, Never, Str, NoneType}

InitTower ==
    /\ cells = <<>>
    /\ cache = <<>>
    /\ ctx_tv = <<>>
    /\ args \in BuiltinTypes \X BuiltinTypes
    /\ last = NoCall
    /\ nops = 0

\* Context::supertype_of of the two classes
DoTowerSupertypeOf ==
    /\ Running
    /\ Returned("supertype_of", args[1], args[2], SupertypeOf(Now, args[1], args[2], MaxDepth))
    /\ UNCHANGED <<ctx_tv, args>>
\* Context::supertype_of of the two classes the other way round
DoTowerConverse ==
    /\ Running
    /\ Returned("supertype_of", args[2], args[1], SupertypeOf(Now, args[2], args[1], MaxDepth))
    /\ UNCHANGED <<ctx_tv, args>>

NextTower == DoTowerSupertypeOf \/ DoTowerConverse
SpecTower == InitTower /\ [][NextTower]_vars

\* the height of a tower type in Float :> Ratio :> Int :> Nat :> Bool
TowerHeight(t) ==
    CASE t = Float -> 5 [] t = Ratio -> 4 [] t = IntT -> 3 [] t = NatT -> 2 [] t = Bool -> 1

\* C16: the numeric tower is a strict chain Float :> Ratio :> Int :> Nat :>
\* Bool: for any two distinct tower types with A above B, supertype_of(A, B)
\* is true and supertype_of(B, A) is false; supertype_of(Float, Nat) and
\* supertype_of(Int, Bool) are true and supertype_of(Nat, Int) is false.
C16_TowerIsStrictChain ==
    last.op = "supertype_of" /\ last.l \in TowerTypes /\ last.r \in TowerTypes
    /\ last.l # last.r
        => /\ last.x = ""
           /\ last.b <=> TowerHeight(last.l) > TowerHeight(last.r)
           /\ last.l = Float /\ last.r = NatT => last.b
           /\ last.l = IntT /\ last.r = Bool => last.b
           /\ last.l = NatT /\ last.r = IntT => ~last.b
\* Float :> Nat was answered true and then Nat :> Float false
C16_Witness ==
    /\ nops = 2 /\ last.op = "supertype_of" /\ last.x = "" /\ ~last.b
    /\ last.l = NatT /\ last.r = Float /\ args = <<Float, NatT>>

\* ------------------------------------------------- Str::split_with (str.rs)
\* A string is the sequence of its bytes: "a", "b", ":" and "." are characters
\* of one byte, "E1" "E2" are the two bytes of one character.
\* str::is_char_boundary at the byte offset i
IsCharBoundary(self, i) == i = 0 \/ i >= Len(self) \/ self[i + 1] # "E2"
\* self[i..].starts_with(sep)
StartsWith(self, i, sep) ==
    /\ Len(sep) <= Len(self) - i
    /\ \A j \in 1..Len(sep) : self[i + j] = sep[j]
\* &self[a..b]
Slice(self, a, b) == SubSeq(self, a + 1, b)
\* the separator the for loop breaks at (str.rs 184-193): the first listed one
\* the rest of the string starts with
FirstSep(self, seps, i) ==
    CHOOSE k \in DOMAIN seps :
        StartsWith(self, i, seps[k]) /\ \A j \in 1..(k - 1) : ~StartsWith(self, i, seps[j])

RECURSIVE SplitLoop(_, _, _, _, _)
\* the while loop of split_with (str.rs 182-198) from the offsets start and i;
\* x is "panic" where a slice is taken off a character boundary, "hang" where
\* the loop pushes pieces for ever (an empty separator moves neither offset)
SplitLoop(self, seps, ret, start, i) ==
    IF i >= Len(self) THEN [pieces |-> Append(ret, Slice(self, start, Len(self))), x |-> ""]
    ELSE IF seps # <<>> /\ ~IsCharBoundary(self, i) THEN [pieces |-> ret, x |-> "panic"]
    ELSE IF \E k \in DOMAIN seps : StartsWith(self, i, seps[k])
    THEN IF Len(seps[FirstSep(self, seps, i)]) = 0 THEN [pieces |-> ret, x |-> "hang"]
         ELSE SplitLoop(self, seps, Append(ret, Slice(self, start, i)),
                        i + Len(seps[FirstSep(self, seps, i)]),
                        i + Len(seps[FirstSep(self, seps, i)]))
    ELSE SplitLoop(self, seps, ret, start, i + 1)
\* Str::split_with (str.rs 176-200)
SplitWith(self, seps) == SplitLoop(self, seps, <<>>, 0, 0)

\* ---- the split driver: split_with of a string by a list of separators and
\* by the same separators listed in another order
\* strings of at most MaxStr bytes, lists of at most MaxSeps separators
MaxStr == 4
MaxSeps == 2
StrBytes == {"a", ":", ".", "E1", "E2"}
\* the byte sequences that are strings: E1 and E2 only as the pair E1 E2
IsStr(bs) ==
    \A i \in DOMAIN bs :
        /\ bs[i] = "E1" => i < Len(bs) /\ bs[i + 1] = "E2"
        /\ bs[i] = "E2" => i > 1 /\ bs[i - 1] = "E1"
Strs == {bs \in UNION {[1..n -> StrBytes] : n \in 0..MaxStr} : IsStr(bs)}
Seps == {<<":">>, <<".">>, <<":", ":">>, <<>>}
SepLists == UNION {[1..n -> Seps] : n \in 0..MaxSeps}
\* the lists that list the separators of seps in some order
Reordered(seps) ==
    {l \in SepLists : Len(l) = Len(seps) /\ \A x \in Seps :
        Cardinality({i \in DOMAIN l : l[i] = x}) = Cardinality({i \in DOMAIN seps : seps[i] = x})}

InitSplit ==
    /\ cells = <<>>
    /\ cache = <<>>
    /\ ctx_tv = <<>>
    /\ args \in Strs \X SepLists
    /\ last = [op |-> "none", x |-> ""]
    /\ nops = 0

\* the two calls have returned (or not)
Split2(self, seps, other, r1, r2) ==
    last' = [op |-> "split_with", self |-> self, seps |-> seps, other |-> other,
             pieces |-> r1.pieces, x |-> r1.x, pieces2 |-> r2.pieces, x2 |-> r2.x]
\* split_with(seps) and split_with of the same separators in another order
DoSplitWith ==
    /\ nops = 0
    /\ \E other \in Reordered(args[2]) :
          Split2(args[1], args[2], other, SplitWith(args[1], args[2]), SplitWith(args[1], other))
    /\ nops' = 1
    /\ UNCHANGED <<cells, cache, ctx_tv, args>>

NextSplit == DoSplitWith
SpecSplit == InitSplit /\ [][NextSplit]_vars

\* sep occurs somewhere in piece
Occurs(sep, piece) == \E i \in 0..Len(piece) : StartsWith(piece, i, sep)

\* C17: Str::split_with cuts the string at every occurrence of any listed
\* separator, scanning left to right, and returns the pieces between them in
\* order; listing the same separators in a different order gives the same
\* pieces.
C17_SplitWithAnyOrder ==
    last.op = "split_with" =>
        /\ last.x = "" /\ last.x2 = ""
        /\ \A n \in DOMAIN last.pieces, k \in DOMAIN last.seps :
              last.seps[k] # <<>> => ~Occurs(last.seps[k], last.pieces[n])
        /\ last.pieces2 = last.pieces

\* ---- the occurs driver: sub_unify of a variable and a type that contains it
\* the types F(?T) over the variable ?T = FreeVar(1), nested one level at most
OccurForms(v) ==
    {Func1(v, IntT), Func1(IntT, v), Add(v), Pair(IntT, v), Record([a |-> v]), Ref(v),
     Or(v, IntT), And(v, Eq), Refinement("x", v, {PredGe("x", TpValue(0))}),
     ArrayT(v, TpValue(2))}
OccurTypes ==
    OccurForms(FreeVar(1))
    \cup {Func1(f, IntT) : f \in OccurForms(FreeVar(1))}
    \cup {Add(f) : f \in OccurForms(FreeVar(1))}
OccurHeaps ==
    {<<Unbound("", 1, c)>> : c \in {Sandwiched(Never, Obj), Sandwiched(Never, IntT),
                                    Sandwiched(IntT, Obj), Sandwiched(NatT, IntT)}}

InitOccur ==
    /\ cells \in OccurHeaps
    /\ cache = <<>>
    /\ ctx_tv = <<>>
    /\ args \in {<<t>> : t \in OccurTypes}
    /\ last = NoCall
    /\ nops = 0

\* sub_unify(?T, F(?T))
DoUnifyVarWithForm ==
    /\ nops = 0
    /\ Returned("sub_unify", FreeVar(1), args[1], SubUnify(Now, FreeVar(1), args[1], MaxDepth))
    /\ UNCHANGED <<ctx_tv, args>>
\* sub_unify(F(?T), ?T)
DoUnifyFormWithVar ==
    /\ nops = 0
    /\ Returned("sub_unify", args[1], FreeVar(1), SubUnify(Now, args[1], FreeVar(1), MaxDepth))
    /\ UNCHANGED <<ctx_tv, args>>

NextOccur == DoUnifyVarWithForm \/ DoUnifyFormWithVar
SpecOccur == InitOccur /\ [][NextOccur]_vars

\* C18: the occurs check refuses every request that would bind an unbound
\* variable to a type containing itself: sub_unify(?T, F(?T)) and
\* sub_unify(F(?T), ?T) return an error for any non-trivial type constructor F
\* (subroutine, polymorphic type, record, reference, union, intersection,
\* refinement, at any nesting depth), so no variable ever ends up linked to a
\* type that contains that variable. (Stated of the calls that return within
\* MaxDepth nested calls.)
C18_OccursCheckRefuses ==
    last.op = "sub_unify" /\ last.x # "fuel" =>
        /\ last.x = "" /\ ~last.b
        /\ \A id \in DOMAIN cells : cells[id].st # "Unbound" => id \notin Reach(cells, cells[id].t)

\* ------------------------------------ nominal sub-unification of a definition
\* Range(T) and Iterable(T)
Range(t) == Poly("Range", <<TpT(t)>>)
Iterable(t) == Poly("Iterable", <<TpT(t)>>)
\* the parameter 'T of the definition Range('T), as the heap holds it
RangeParam == Unbound("T", GenericLevel, UninitedC)
NominalElems == {IntT, NatT, Str, FreeVar(2)}
NominalSubs == {Range(t) : t \in NominalElems} \cup {IntT, Str}
NominalSups ==
    {Iterable(t) : t \in NominalElems \cup {Obj}} \cup {Iterable(Range(FreeVar(2))), Add(IntT), Pair(IntT, Str)}
NominalHeaps ==
    {<<RangeParam, Unbound("", 1, c)>> :
        c \in {Sandwiched(Never, Obj), Sandwiched(Never, IntT), Sandwiched(IntT, Obj),
               Sandwiched(Str, Obj), UninitedC}}

InitNominal ==
    /\ cells \in NominalHeaps
    /\ cache = <<>>
    /\ ctx_tv = <<>>
    /\ args \in {<<sub, sup>> : sub \in NominalSubs, sup \in NominalSups}
    /\ last = NoCall
    /\ nops = 0

\* nominal_sub_unify(maybe_sub, maybe_sup, maybe_sup.typarams()), as the
\* Poly arms of sub_unify call it
DoNominalSubUnify ==
    /\ Running
    /\ Returned("nominal_sub_unify", args[1], args[2],
                NominalSubUnify(Now, args[1], args[2], args[2].ps, MaxDepth))
    /\ UNCHANGED <<ctx_tv, args>>
\* sub_unify(maybe_sub, maybe_sup) of the same pair
DoSubUnifyNominal ==
    /\ Running
    /\ Returned("sub_unify", args[1], args[2], SubUnify(Now, args[1], args[2], MaxDepth))
    /\ UNCHANGED <<ctx_tv, args>>

NextNominal == DoNominalSubUnify \/ DoSubUnifyNominal
SpecNominal == InitNominal /\ [][NextNominal]_vars

SandwichBounds ==
    {Sandwiched(Never, Obj), Sandwiched(Never, IntT), Sandwiched(Never, NatT),
     Sandwiched(Never, Str), Sandwiched(NatT, IntT), Sandwiched(IntT, Obj),
     Sandwiched(NatT, Obj), Sandwiched(Str, Obj), Sandwiched(Never, Eq),
     Sandwiched(Never, Poly("Add", <<TpT(IntT)>>)), Sandwiched(IntT, Poly("Add", <<TpT(IntT)>>)),
     Sandwiched(Never, Poly("Add", <<TpT(Str)>>))}
SandwichLevels == {1, 2}
SandwichHeaps ==
    {<<Unbound("", ll, lc), Unbound("", rl, rc)>> :
        ll \in SandwichLevels, rl \in SandwichLevels, lc \in SandwichBounds, rc \in SandwichBounds}

InitSandwich ==
    /\ cells \in SandwichHeaps
    /\ cache = <<>>
    /\ ctx_tv = <<>>
    /\ args = <<>>
    /\ last = NoCall
    /\ nops = 0

\* sub_unify(?L, ?R) of the two variables of the heap
DoUnifySandwiched ==
    /\ nops = 0
    /\ \E l \in {1, 2} :
          Returned("sub_unify", FreeVar(l), FreeVar(3 - l),
                   SubUnify(Now, FreeVar(l), FreeVar(3 - l), MaxDepth))
    /\ UNCHANGED <<ctx_tv, args>>
\* a query after the call: ?L <: ?R
DoSandwichedQuery ==
    /\ nops = 1 /\ last.x = ""
    /\ Returned("subtype_of", last.l, last.r, SubtypeOf(Now, last.l, last.r, MaxDepth))
    /\ UNCHANGED <<ctx_tv, args>>

NextSandwich == DoUnifySandwiched \/ DoSandwichedQuery
SpecSandwich == InitSandwich /\ [][NextSandwich]_vars

\* the intersection of the upper bounds and the union of the lower bounds the
\* call started with
SupsBefore == Intersection(Store(last.pre, last.precache, 0),
                           last.pre[last.l.id].c.sup, last.pre[last.r.id].c.sup, MaxDepth).t
SubsBefore == Union(Store(last.pre, last.precache, 0),
                    last.pre[last.l.id].c.sub, last.pre[last.r.id].c.sub, MaxDepth).t
\* the lower-level variable holds the merged constraint, the other is linked
\* to it
Merged(keep, other) ==
    /\ cells[keep] = Unbound("", last.pre[keep].lev, Sandwiched(SubsBefore, SupsBefore))
    /\ cells[other].st = "Linked" /\ cells[other].t = FreeVar(keep)

\* C20: sub_unify of two unbound, non-generalized sandwiched variables
\* ?L(:> lsub, <: lsup) and ?R(:> rsub, <: rsup) returns an error if the
\* intersection of lsup and rsup is Never; otherwise, on return, the variable
\* with the lower level is still unbound and holds
\* Sandwiched(lsub or rsub, lsup and rsup), and the other is linked to it.
C20_SandwichedMerge ==
    last.op = "sub_unify" /\ last.x = "" =>
        IF SupsBefore = Never THEN ~last.b
        ELSE IF last.pre[last.l.id].lev < last.pre[last.r.id].lev
        THEN Merged(last.l.id, last.r.id)
        ELSE IF last.pre[last.r.id].lev < last.pre[last.l.id].lev
        THEN Merged(last.r.id, last.l.id)
        ELSE Merged(last.l.id, last.r.id) \/ Merged(last.r.id, last.l.id)

\* C20 (amended): if the intersection of lsup and rsup is Never the call
\* returns an error; a call that returns an error leaves both variables as
\* they were; if the call returns without an error (?L <: ?R passed the
\* subtype check that precedes the arm), the variable whose level is not the
\* higher one, ?L when the levels are equal, is still unbound and holds
\* Sandwiched(union(lsub, rsub), intersection(lsup, rsup)), and the other
\* variable is linked to it.
C20_SandwichedMergeOnSuccess ==
    last.op = "sub_unify" /\ last.x = "" =>
        /\ SupsBefore = Never => ~last.b
        /\ ~last.b => cells = last.pre
        /\ last.b =>
              IF last.pre[last.l.id].lev <= last.pre[last.r.id].lev
              THEN Merged(last.l.id, last.r.id)
              ELSE Merged(last.r.id, last.l.id)
\* ?L of level 2 and ?R of level 1 with different bounds were unified: ?R
\* holds the merged constraint
C20_Witness ==
    /\ last.op = "sub_unify" /\ last.b
    /\ last.pre[last.l.id].lev > last.pre[last.r.id].lev
    /\ last.pre[last.l.id].c # last.pre[last.r.id].c
    /\ cells[last.r.id].st = "Unbound" /\ cells[last.r.id].c # last.pre[last.r.id].c
    /\ cells[last.l.id].st = "Linked"


\* ------------------------------------------------- sub_unify of two records
RecordATypes == {IntT, NatT, FreeVar(1)}
RecordBTypes == {IntT, Str}
\* records over the fields a, b and c; a variable stands in field a only
RecordTypes ==
    {Record([a |-> x]) : x \in RecordATypes}
    \cup {Record([b |-> y]) : y \in RecordBTypes}
    \cup {Record([a |-> x, b |-> y]) : x \in RecordATypes, y \in RecordBTypes}
    \cup {Record([a |-> x, c |-> y]) : x \in RecordATypes, y \in RecordBTypes}
RecordHeaps ==
    {<<Unbound("", 1, c)>> :
        c \in {Sandwiched(Never, Obj), Sandwiched(Never, IntT), Sandwiched(NatT, Obj)}}

InitRecord ==
    /\ cells \in RecordHeaps
    /\ cache = <<>>
    /\ ctx_tv = <<>>
    /\ args \in {<<sub, sup>> : sub \in RecordTypes, sup \in RecordTypes}
    /\ last = NoCall
    /\ nops = 0

\* sub_unify(found record, expected record)
DoSubUnifyRecords ==
    /\ nops = 0
    /\ Returned("sub_unify", args[1], args[2], SubUnify(Now, args[1], args[2], MaxDepth))
    /\ UNCHANGED <<ctx_tv, args>>
\* supertype_of(expected record, found record) after or instead of it
DoSupertypeOfRecords ==
    /\ nops < 2 /\ last.x = ""
    /\ Returned("supertype_of", args[2], args[1], SupertypeOf(Now, args[2], args[1], MaxDepth))
    /\ UNCHANGED <<ctx_tv, args>>

NextRecord == DoSubUnifyRecords \/ DoSupertypeOfRecords
SpecRecord == InitRecord /\ [][NextRecord]_vars

\* every field of the expected record is a field of the found record, and
\* the field types unify one by one in the state the call started in
FieldsUnify(sub, sup) ==
    /\ DOMAIN sup.fs \subseteq DOMAIN sub.fs
    /\ \A k \in DOMAIN sup.fs :
          SubUnify(Store(last.pre, last.precache, 0), sub.fs[k], sup.fs[k], MaxDepth).b

\* C21: sub_unify of two records asks only that every field of the super
\* (expected) record is in the sub (found) record with a type that unifies:
\* it succeeds then, extra fields of the sub record or not, and it returns an
\* error when a field of the super record is missing from the sub record.
C21_RecordWidth ==
    last.op = "sub_unify" /\ last.x = "" =>
        /\ FieldsUnify(last.l, last.r) => last.b
        /\ ~(DOMAIN last.r.fs \subseteq DOMAIN last.l.fs) => ~last.b


\* ------------------------------------------- sub_unify of a union on the sub side
UnionParts == {IntT, NatT, Str, FreeVar(1), Pair(IntT, IntT), Pair(NatT, FreeVar(1))}
UnionSubs == {Or(p[1], p[2]) : p \in {q \in UnionParts \X UnionParts : q[1] # q[2]}}
UnionSups ==
    {IntT, Obj, Eq, FreeVar(1), Or(IntT, Str), Ref(FreeVar(1)), Add(IntT), Add(FreeVar(1)),
     Pair(IntT, IntT), Pair(FreeVar(1), IntT), Pair(IntT, FreeVar(1))}
UnionHeaps ==
    {<<Unbound("", 1, c)>> :
        c \in {Sandwiched(Never, Obj), Sandwiched(Never, IntT), Sandwiched(NatT, Obj)}}

InitUnion ==
    /\ cells \in UnionHeaps
    /\ cache = <<>>
    /\ ctx_tv = <<>>
    /\ args \in {<<sub, sup>> : sub \in UnionSubs, sup \in UnionSups}
    /\ last = NoCall
    /\ nops = 0

\* sub_unify(A or B, C)
DoSubUnifyUnion ==
    /\ nops = 0
    /\ Returned("sub_unify", args[1], args[2], SubUnify(Now, args[1], args[2], MaxDepth))
    /\ UNCHANGED <<ctx_tv, args>>
\* sub_unify(A, C) and then sub_unify(B, C), as two calls
DoSubUnifyPart ==
    /\ nops = 0 \/ (nops = 1 /\ last.op = "part" /\ last.x = "" /\ last.b)
    /\ Returned("part", (IF nops = 0 THEN args[1].l ELSE args[1].r), args[2],
                SubUnify(Now, (IF nops = 0 THEN args[1].l ELSE args[1].r), args[2], MaxDepth))
    /\ UNCHANGED <<ctx_tv, args>>

NextUnion == DoSubUnifyUnion \/ DoSubUnifyPart
SpecUnion == InitUnion /\ [][NextUnion]_vars

\* sub_unify(A, C) followed, when it succeeds, by sub_unify(B, C), from the
\* state the call started in
AfterLeft == SubUnify(Store(last.pre, last.precache, 0), last.l.l, last.r, MaxDepth)
BothParts == IF AfterLeft.x # "" \/ ~AfterLeft.b THEN AfterLeft
             ELSE SubUnify(AfterLeft.s, last.l.r, last.r, MaxDepth)

\* C22: sub_unify splits a union on the sub side: for every sup type C,
\* whatever its shape, sub_unify(A or B, C) performs sub_unify(A, C) and
\* sub_unify(B, C) and succeeds exactly when both succeed.
C22_UnionSplits ==
    last.op = "sub_unify" /\ last.x = "" /\ BothParts.x = "" =>
        /\ last.b = BothParts.b
        /\ last.b => cells = BothParts.s.h


\* ------------------------------------- subroutine types with default parameters
DefaultLists ==
    {<<>>, <<ParamTy("x", IntT)>>, <<ParamTy("x", NatT)>>, <<ParamTy("y", Str)>>,
     <<ParamTy("x", IntT), ParamTy("y", Str)>>, <<ParamTy("y", Str), ParamTy("x", NatT)>>}
NonDefaultLists == {<<>>, <<ParamTy("", IntT)>>, <<ParamTy("", NatT)>>}
VarParamLists == {<<>>, <<ParamTy("", IntT)>>, <<ParamTy("", NatT)>>}
SubrWithDefaults ==
    {Subr(kind, nd, vp, dp, ret) :
        kind \in {"Func", "Proc"}, nd \in NonDefaultLists, vp \in VarParamLists,
        dp \in DefaultLists, ret \in {IntT, NatT}}

InitDefaults ==
    /\ cells = <<>>
    /\ cache = <<>>
    /\ ctx_tv = <<>>
    /\ args \in {<<NatT>>, <<IntT>>}
    /\ last = NoCall
    /\ nops = 0

\* supertype_of(lhs, rhs) of two subroutine types
DoSubrSupertypeOf ==
    /\ nops = 0
    /\ \E lhs \in SubrWithDefaults, rhs \in SubrWithDefaults :
          /\ lhs.ret = args[1]
          /\ Returned("supertype_of", lhs, rhs, SupertypeOf(Now, lhs, rhs, MaxDepth))
    /\ UNCHANGED <<ctx_tv, args>>

NextDefaults == DoSubrSupertypeOf
SpecDefaults == InitDefaults /\ [][NextDefaults]_vars

\* t :> u for two closed types
Above(t, u) == SupertypeOf(Store(<<>>, <<>>, 0), t, u, MaxDepth).b
\* the conditions on two subroutine types the claim lists
SubrCompatible(ls, rs) ==
    /\ Len(ls.nd) = Len(rs.nd)
    /\ Above(ls.ret, rs.ret)
    /\ \A i \in DOMAIN ls.nd : Above(rs.nd[i].t, ls.nd[i].t)
    /\ Len(ls.vp) > 0 /\ Len(rs.vp) > 0 => Above(rs.vp[1].t, ls.vp[1].t)
    /\ \A i \in DOMAIN ls.dp :
          \E j \in DOMAIN rs.dp : rs.dp[j].n = ls.dp[i].n /\ Above(rs.dp[j].t, ls.dp[i].t)
\* ls.kind == rs.kind || ls.kind.is_proc()
KindCompatible(ls, rs) == ls.kind = rs.kind \/ ls.kind = "Proc"

\* C23: for two subroutine types of compatible kind, lhs :> rhs holds if and
\* only if the non-default arities are equal, the return type is covariantly
\* compatible, the non-default and variadic parameters are contravariantly
\* compatible and every default parameter of lhs has a same-named default
\* parameter in rhs with a contravariantly compatible type; nothing else is
\* asked of the default parameters.
C23_SubrIffCompatible ==
    last.op = "supertype_of" /\ last.x = "" /\ KindCompatible(last.l, last.r) =>
        (last.b <=> SubrCompatible(last.l, last.r))


\* ------------------------------------------------------------- glue patches
\* ContextKind::GluePatch(tr_inst): sub_type <: sup_trait, declared out of class
GluePatch(sub_type, sup_trait) == [sub_type |-> sub_type, sup_trait |-> sup_trait]
\* Context::all_patches: the patches registered in the environment, Int is
\* Show and Str is Num by a patch, neither by its definition
AllPatches == <<GluePatch(IntT, Show), GluePatch(Str, Num)>>
\* Context::_find_compatible_glue_patch (compare.rs 260-271): the first patch
\* with sub <: patch.sub_type and patch.sup_trait <: sup, <<>> for None
FindCompatibleGluePatch(s, sup, sub) ==
    SelectSeq(AllPatches,
              LAMBDA patch : /\ SubtypeOf(s, sub, patch.sub_type, MaxDepth).b
                             /\ SubtypeOf(s, patch.sup_trait, sup, MaxDepth).b)

PatchTypes == {IntT, NatT, Bool, Str, Ratio, Show, Eq, Num, Obj, Or(Show, NoneType), Or(Num, Eq)}

InitPatch ==
    /\ cells = <<>>
    /\ cache = <<>>
    /\ ctx_tv = <<>>
    /\ args = <<>>
    /\ last = NoCall
    /\ nops = 0

\* supertype_of(sup, sub) in an environment with the glue patches
DoPatchedSupertypeOf ==
    /\ Running
    /\ \E sup \in PatchTypes, sub \in PatchTypes :
          Returned("supertype_of", sup, sub, SupertypeOf(Now, sup, sub, MaxDepth))
    /\ UNCHANGED <<ctx_tv, args>>

NextPatch == DoPatchedSupertypeOf
SpecPatch == InitPatch /\ [][NextPatch]_vars

\* C24: glue patches count as evidence for subtyping: if some registered glue
\* patch has sub <: patch.sub_type and patch.sup_trait <: sup, the nominal
\* comparison finds it and supertype_of(sup, sub) is true.
C24_GluePatchIsEvidence ==
    last.op = "supertype_of" /\ last.x = "" =>
        (FindCompatibleGluePatch(Store(<<>>, <<>>, 0), last.l, last.r) # <<>> => last.b)


\* ------------------------------------------------------ references (Ref, RefMut)
RefBases == {IntT, NatT, Bool, Str, Ratio, Obj, Eq, Num, Or(IntT, Str), Func1(IntT, IntT)}
RefRights == RefBases \cup {Ref(t) : t \in RefBases} \cup {RefMut(t) : t \in RefBases}

InitRef ==
    /\ cells = <<>>
    /\ cache = <<>>
    /\ ctx_tv = <<>>
    /\ args \in {<<t>> : t \in RefBases}
    /\ last = NoCall
    /\ nops = 0

\* supertype_of(RefMut(T), RefMut(U))
DoRefMutSupertypeOf ==
    /\ nops = 0
    /\ \E u \in RefBases :
          Returned("supertype_of", RefMut(args[1]), RefMut(u),
                   SupertypeOf(Now, RefMut(args[1]), RefMut(u), MaxDepth))
    /\ UNCHANGED <<ctx_tv, args>>
\* supertype_of(Ref(T), U)
DoRefSupertypeOf ==
    /\ nops = 0
    /\ \E u \in RefRights :
          Returned("supertype_of", Ref(args[1]), u, SupertypeOf(Now, Ref(args[1]), u, MaxDepth))
    /\ UNCHANGED <<ctx_tv, args>>

NextRef == DoRefMutSupertypeOf \/ DoRefSupertypeOf
SpecRef == InitRef /\ [][NextRef]_vars

\* C25: RefMut is invariant on its before component: supertype_of(RefMut(T),
\* RefMut(U)) is true only when T :> U and U :> T both hold, whereas
\* Ref(T) :> U holds exactly when T :> U (stated for a U that is not itself a
\* reference).
C25_RefMutInvariant ==
    last.op = "supertype_of" /\ last.x = "" =>
        /\ last.l.k = "RefMut" /\ last.b => Above(last.l.t, last.r.t) /\ Above(last.r.t, last.l.t)
        /\ last.l.k = "Ref" /\ last.r.k \notin {"Ref", "RefMut"} =>
              (last.b <=> Above(last.l.t, last.r))

\* ------------------------------------------- self-referential bounds (instantiate)
\* the recursion budget of one instantiate call
SelfDepth == 8
\* bounds that mention the bound variable T (cell 1) once, twice, or under a
\* nested constructor
SelfBounds ==
    {Add(FreeVar(1)), Pair(FreeVar(1), IntT), Pair(IntT, FreeVar(1)),
     Pair(FreeVar(1), FreeVar(1)), Add(Add(FreeVar(1))), Pair(IntT, Add(FreeVar(1))),
     Pair(Add(FreeVar(1)), FreeVar(1))}
\* the quantified types over T
SelfTypes ==
    {Quantified(Func1(FreeVar(1), FreeVar(1))),
     Quantified(Func2(FreeVar(1), FreeVar(1), FreeVar(1))),
     Quantified(Func1(FreeVar(1), IntT)),
     Quantified(Func1(IntT, FreeVar(1)))}

InitSelf ==
    /\ cells \in {<<QVar("T", b)>> : b \in SelfBounds}
    /\ cache = <<>>
    /\ ctx_tv = <<>>
    /\ args \in {<<q>> : q \in SelfTypes}
    /\ last = NoCall
    /\ nops = 0

\* Context::instantiate(args[1], None) in a context of level 1 or 2
DoInstantiateSelf ==
    /\ Running
    /\ \E level \in {1, 2} :
         LET r == Instantiate(Cx(level, ctx_tv), Now, args[1], SelfDepth)
         IN /\ Leave(CallOf(r))
            /\ last' = [Called("instantiate", args[1], Never, CallOf(r)) EXCEPT !.t = r.t]
    /\ UNCHANGED <<ctx_tv, args>>

NextSelf == DoInstantiateSelf
SpecSelf == InitSelf /\ [][NextSelf]_vars

\* C26: instantiate of a quantified type whose bound mentions the bound variable
\* itself, once or several times, returns: the recursion never runs out of
\* budget.
C26_SelfBoundTerminates ==
    last.op = "instantiate" => last.x # "fuel"

\* ------------------------------------------------ what a failed sub_unify leaves
\* the component types: two primitives and the variables ?1, ?2
FrameParts == {NatT, Str, FreeVar(1), FreeVar(2)}
\* the try-either cases whose first alternative is a pair
FrameEither ==
    {And(Pair(Str, FreeVar(1)), Str), And(Pair(Str, FreeVar(1)), Pair(NatT, NatT)),
     Or(Pair(FreeVar(1), NatT), NatT), Or(Pair(FreeVar(1), NatT), Pair(Str, Str))}
\* pairs, functions, intersections and unions of two components
FrameTypes ==
    FrameParts
    \cup {Pair(p[1], p[2]) : p \in FrameParts \X FrameParts}
    \cup {Func1(p[1], p[2]) : p \in FrameParts \X FrameParts}
    \cup {And(p[1], p[2]) : p \in {q \in FrameParts \X FrameParts : q[1] # q[2]}}
    \cup {Or(p[1], p[2]) : p \in {q \in FrameParts \X FrameParts : q[1] # q[2]}}
    \cup FrameEither
\* ?1 unconstrained or below Int, ?2 unconstrained
FrameHeaps ==
    {<<Unbound("", 1, Sandwiched(Never, sup)), Unbound("", 1, Sandwiched(Never, Obj))>> :
        sup \in {Obj, IntT}}

InitFrame ==
    /\ cells \in FrameHeaps
    /\ cache = <<>>
    /\ ctx_tv = <<>>
    /\ args \in {<<sub>> : sub \in FrameTypes}
    /\ last = NoCall
    /\ nops = 0

\* sub_unify(args[1], sup)
DoSubUnifyFrame ==
    /\ nops = 0
    /\ \E sup \in FrameTypes :
         Returned("sub_unify", args[1], sup, SubUnify(Now, args[1], sup, MaxDepth))
    /\ UNCHANGED <<ctx_tv, args>>
\* supertype_of(sup, args[1]) in the state the call left
DoSupertypeOfFrame ==
    /\ nops = 1 /\ last.op = "sub_unify" /\ last.x = ""
    /\ Returned("supertype_of", last.r, last.l, SupertypeOf(Now, last.r, last.l, MaxDepth))
    /\ UNCHANGED <<ctx_tv, args>>

NextFrame == DoSubUnifyFrame \/ DoSupertypeOfFrame
SpecFrame == InitFrame /\ [][NextFrame]_vars

\* sub_unify has just returned an error
Failed == last.op = "sub_unify" /\ last.x = "" /\ ~last.b

DecidedAtEntry == SupertypeOf(Store(last.pre, last.precache, 0), last.r, last.l, MaxDepth).b
\* the cells the arguments of the call reach
Touched == Reach(last.pre, last.l) \cup Reach(last.pre, last.r)

TransTypes ==
    {Never, Bool, NatT, IntT, Ratio, Float, Str, Obj,
     Or(IntT, Str), Or(NatT, Str), And(IntT, Str),
     Record([a |-> IntT]), Record([a |-> NatT]), Record([a |-> NatT, b |-> Str]),
     Func1(IntT, IntT), Func1(NatT, IntT), Func1(IntT, NatT),
     Refinement("x", IntT, {PredGe("x", TpValue(0))}),
     Refinement("x", IntT, {PredEq("x", TpValue(1))}),
     Refinement("x", IntT, {PredLe("x", TpValue(2))}),
     ArrayT(IntT, TpValue(2)), ArrayT(NatT, TpValue(2)), ArrayT(NatT, TpValue(3)),
     SetT(IntT, TpValue(2))}

InitTrans ==
    /\ cells = <<>>
    /\ cache = <<>>
    /\ ctx_tv = <<>>
    /\ args \in TransTypes \X TransTypes \X TransTypes
    /\ last = NoCall
    /\ nops = 0

\* supertype_of(A, B), then supertype_of(B, C), then supertype_of(A, C), on one
\* cache; prev keeps the earlier answers
DoTransQuery ==
    /\ last.x = "" /\ nops < 3
    /\ LET l == IF nops = 1 THEN args[2] ELSE args[1]
           r == IF nops = 0 THEN args[2] ELSE args[3]
           res == SupertypeOf(Now, l, r, MaxDepth)
       IN /\ Leave(res)
          /\ last' = [Called("supertype_of", l, r, res) EXCEPT
                        !.prev = IF nops = 0 THEN <<>> ELSE Append(last.prev, last.b)]
    /\ UNCHANGED <<ctx_tv, args>>

NextTrans == DoTransQuery
SpecTrans == InitTrans /\ [][NextTrans]_vars

\* C28: on closed types the subtype relation is transitive: when
\* supertype_of(A, B) and supertype_of(B, C) are true, supertype_of(A, C) is
\* true.
C28_Transitive ==
    nops = 3 /\ last.x = "" /\ last.prev = <<TRUE, TRUE>> => last.b

\* ------------------------------------------------------ totality of supertype_of
\* refinements of Int by one predicate of each shape
TotalRefinements ==
    {Refinement("x", IntT, {p}) :
        p \in {PredEq("x", TpValue(1)), PredNe("x", TpValue(0)), PredGe("x", TpValue(0)),
               PredLe("x", TpValue(2))}}
\* primitives, a complement, a union, refinements, arrays and sets, and the
\* variables ?1 (of kind Type, no bounds) and ?2 (bounded)
TotalTypes ==
    {IntT, NatT, Str, Obj, Never, Not(IntT, Str), Or(IntT, Str), FreeVar(1), FreeVar(2),
     ArrayT(IntT, TpValue(2)), ArrayT(NatT, TpValue(3)), SetT(IntT, TpValue(2))}
    \cup TotalRefinements
TotalHeaps ==
    {<<Unbound("", 1, TypeOf(TypeT)), Unbound("", 1, Sandwiched(NatT, sup))>> :
        sup \in {IntT, Obj}}

InitTotal ==
    /\ cells \in TotalHeaps
    /\ cache = <<>>
    /\ ctx_tv = <<>>
    /\ args \in {<<t>> : t \in TotalTypes}
    /\ last = NoCall
    /\ nops = 0

\* supertype_of(args[1], rhs)
DoTotalSupertypeOf ==
    /\ Running
    /\ \E rhs \in TotalTypes :
         Returned("supertype_of", args[1], rhs, SupertypeOf(Now, args[1], rhs, MaxDepth))
    /\ UNCHANGED <<ctx_tv, args>>
\* subtype_of(args[1], rhs)
DoTotalSubtypeOf ==
    /\ Running
    /\ \E rhs \in TotalTypes :
         Returned("subtype_of", args[1], rhs, SubtypeOf(Now, args[1], rhs, MaxDepth))
    /\ UNCHANGED <<ctx_tv, args>>

NextTotal == DoTotalSupertypeOf \/ DoTotalSubtypeOf
SpecTotal == InitTotal /\ [][NextTotal]_vars

\* C29: supertype_of is total: for every pair of types it returns a boolean; it
\* never panics and never reaches an unimplemented branch.
C29_SupertypeOfTotal ==
    last.op = "supertype_of" => last.x = ""

\* ----------------------------------------------- the language server (els)
\* Server::run on the same variables: args is the stream of messages on stdin,
\* nops the number of them read so far, cells the messages written to stdout,
\* last the position of the loop of run and the message in hand.
\* messages a behaviour feeds to the server
MaxMsgs == 2
\* a message: id is <<>> or <<n>>, method is "" where the member is absent
Msg(id, method, params) == [id |-> id, method |-> method, params |-> params]
\* what the server writes: a log notification, a result or an error response
LogMessage == [kind |-> "log", id |-> <<>>, code |-> 0]
ResultMessage(id) == [kind |-> "result", id |-> id, code |-> 0]
ErrorMessage(id, code) == [kind |-> "error", id |-> id, code |-> code]
\* what a handler does: the messages it sends and how it returns (ELSResult:
\* "ok", "err"; "panic"; "exit" for std::process::exit)
Sent(out, st) == [out |-> out, st |-> st]

\* the params of a completion request: not a CompletionParams, the cursor on
\* a comment line, the cursor in code
CompletionInputs == {"invalid", "comment", "code"}
\* the params of a signature help request: not a SignatureHelpParams, a
\* content change, the trigger characters, no context, another character
SignatureHelpInputs == {"invalid", "content_change", "(", ",", "|", "none", "other"}
\* the i-th message of a stream: a request with id i, a response to the
\* server, a notification, or a message with neither id nor method
ServerMsgs(i) ==
    {Msg(<<i>>, m, "") : m \in {"initialize", "shutdown", "textDocument/typeDefinition"}}
    \cup {Msg(<<i>>, "textDocument/completion", p) : p \in CompletionInputs}
    \cup {Msg(<<i>>, "textDocument/signatureHelp", p) : p \in SignatureHelpInputs}
    \cup {Msg(<<i>>, "", "")}
    \cup {Msg(<<>>, m, "") : m \in {"initialized", "exit", "textDocument/didChange", ""}}
RECURSIVE Streams(_)
Streams(n) ==
    IF n = 0 THEN {<<>>}
    ELSE Streams(n - 1) \cup {Append(st, m) : st \in {q \in Streams(n - 1) : Len(q) = n - 1},
                                              m \in ServerMsgs(n)}

\* Server::show_completion (completion.rs 154-273)
ShowCompletion(msg) ==
    IF msg.params = "invalid" THEN Sent(<<LogMessage>>, "err")
    ELSE IF msg.params = "comment" THEN Sent(<<LogMessage>>, "ok")
    ELSE Sent(<<LogMessage, LogMessage, LogMessage, ResultMessage(msg.id)>>, "ok")
\* Server::show_signature_help (sig_help.rs 42-65)
ShowSignatureHelp(msg) ==
    IF msg.params = "invalid" THEN Sent(<<LogMessage>>, "err")
    ELSE IF msg.params = "content_change" THEN Sent(<<LogMessage, ResultMessage(msg.id)>>, "ok")
    ELSE IF msg.params = "other" THEN Sent(<<LogMessage>>, "panic")
    ELSE Sent(<<LogMessage, ResultMessage(msg.id)>>, "ok")
\* Server::handle_request (server.rs 330-345); signatureHelp is the arm of the
\* server sig_help.rs is written for
HandleRequest(msg) ==
    CASE msg.method \in {"initialize", "shutdown"} ->
            Sent(<<LogMessage, ResultMessage(msg.id)>>, "ok")
      [] msg.method = "textDocument/completion" -> ShowCompletion(msg)
      [] msg.method = "textDocument/signatureHelp" -> ShowSignatureHelp(msg)
      [] OTHER -> Sent(<<ErrorMessage(msg.id, -32600)>>, "ok")
\* Server::handle_notification (server.rs 347-370)
HandleNotification(msg) ==
    IF msg.method = "exit" THEN Sent(<<LogMessage>>, "exit")
    ELSE Sent(<<LogMessage>>, "ok")
\* Server::dispatch (server.rs 315-328)
DispatchMsg(msg) ==
    IF msg.id # <<>> /\ msg.method # "" THEN HandleRequest(msg)
    ELSE IF msg.id # <<>> THEN Sent(<<>>, "ok")
    ELSE IF msg.method # "" THEN HandleNotification(msg)
    ELSE Sent(<<ErrorMessage(<<>>, -32601)>>, "ok")

InitServer ==
    /\ cells = <<>>
    /\ cache = <<>>
    /\ ctx_tv = <<>>
    /\ args \in Streams(MaxMsgs)
    /\ last = [op |-> "read", msg |-> Msg(<<>>, "", "")]
    /\ nops = 0

\* the first half of the loop of Server::run (server.rs 137-143): read_message
\* takes the next message off stdin
ReadMessage ==
    /\ last.op = "read" /\ nops < Len(args)
    /\ nops' = nops + 1
    /\ last' = [op |-> "dispatch", msg |-> args[nops + 1]]
    /\ UNCHANGED <<cells, cache, ctx_tv, args>>
\* read_message at the end of stdin: Err(UnexpectedEof), and run returns it
ReadEof ==
    /\ last.op = "read" /\ nops = Len(args)
    /\ last' = [last EXCEPT !.op = "err"]
    /\ UNCHANGED <<cells, cache, ctx_tv, args, nops>>
\* the second half of the loop: self.dispatch(msg)?
Dispatch ==
    /\ last.op = "dispatch"
    /\ LET r == DispatchMsg(last.msg)
       IN /\ cells' = cells \o r.out
          /\ last' = [last EXCEPT !.op = IF r.st = "ok" THEN "read" ELSE r.st]
    /\ UNCHANGED <<cache, ctx_tv, args, nops>>

NextServer == ReadMessage \/ ReadEof \/ Dispatch
SpecServer == InitServer /\ [][NextServer]_vars
\* run is a sequential loop: a message that was read is dispatched, and while
\* stdin holds a message the loop reads it
SpecServerFair == SpecServer /\ WF_vars(Dispatch) /\ WF_vars(ReadMessage)

\* the i-th message of stdin is a request and the server has read it
RequestRead(i) ==
    i <= nops /\ i <= Len(args) /\ args[i].id # <<>> /\ args[i].method # ""
\* the responses written so far that carry the id i
Responses(i) ==
    {j \in DOMAIN cells : cells[j].kind \in {"result", "error"} /\ cells[j].id = <<i>>}

\* C30: every request the server reads is eventually answered by exactly one
\* response carrying its id, a result or an error, and never by more than one.
C30_EveryRequestAnswered ==
    /\ \A i \in 1..MaxMsgs : RequestRead(i) ~> (Cardinality(Responses(i)) = 1)
    /\ [](\A i \in 1..MaxMsgs : Cardinality(Responses(i)) <= 1)

====
